---- MODULE Spec2Model ----
(***************************************************************************)
(* Amadeus MCP proxy: the authentication-and-forwarding core.              *)
(*                                                                         *)
(* The repository holds the single-tool server (src/index.js) and three    *)
(* further server files concatenated in src/unnamed/part_000:              *)
(*   file A (lines 1-989):     per-endpoint tools taking caller            *)
(*                             credentials, validated by normalizeBase;    *)
(*   file B (lines 991-4045):  per-endpoint tools taking credentials from  *)
(*                             the environment (getEnvAuth);               *)
(*   file C (lines 4047-6133): a second revision of file B.                *)
(*                                                                         *)
(* Strings that the code inspects character by character (paths, ids) are  *)
(* sequences of atoms: the separators "/", ":", "?", "=", "#", " " are     *)
(* atoms of their own and every other atom is a non-empty run of           *)
(* characters holding none of them.  Other strings are TLA+ strings.       *)
(***************************************************************************)
EXTENDS Integers, Sequences, FiniteSets, TLC

\* Bound: the number of tool invocations of one behaviour.
MaxCalls == 2

(***************************************************************************)
(* PathMatcher                                                             *)
(***************************************************************************)

\* const ALLOWED_PATHS = new Set([...])
ALLOWED_PATHS ==
  { <<"/", "v2", "/", "shopping", "/", "flight-offers">>,
    <<"/", "v1", "/", "shopping", "/", "flight-dates">>,
    <<"/", "v1", "/", "shopping", "/", "flight-offers", "/", "pricing">>,
    <<"/", "v1", "/", "booking", "/", "flight-orders">>,
    <<"/", "v1", "/", "booking", "/", "flight-orders", "/", ":", "flightOrderId">>,
    <<"/", "v1", "/", "shopping", "/", "seatmaps">>,
    <<"/", "v2", "/", "schedule", "/", "flights">>,
    <<"/", "v1", "/", "travel", "/", "predictions", "/", "flight-delay">>,
    <<"/", "v1", "/", "analytics", "/", "itinerary-price-metrics">>,
    <<"/", "v1", "/", "shopping", "/", "flight-offers", "/", "upselling">>,
    <<"/", "v2", "/", "shopping", "/", "flight-offers", "/", "prediction">>,
    <<"/", "v1", "/", "shopping", "/", "flight-destinations">>,
    <<"/", "v1", "/", "shopping", "/", "availability", "/", "flight-availabilities">>,
    <<"/", "v1", "/", "reference-data", "/", "recommended-locations">>,
    <<"/", "v1", "/", "airport", "/", "predictions", "/", "on-time">>,
    <<"/", "v1", "/", "reference-data", "/", "locations">>,
    <<"/", "v1", "/", "reference-data", "/", "locations", "/", "CMUC">>,
    <<"/", "v1", "/", "reference-data", "/", "locations", "/", "airports">>,
    <<"/", "v1", "/", "airport", "/", "direct-destinations">>,
    <<"/", "v2", "/", "reference-data", "/", "urls", "/", "checkin-links">>,
    <<"/", "v1", "/", "reference-data", "/", "airlines">>,
    <<"/", "v1", "/", "airline", "/", "destinations">>,
    <<"/", "v1", "/", "shopping", "/", "activities">>,
    <<"/", "v1", "/", "shopping", "/", "activities", "/", "4615">>,
    <<"/", "v1", "/", "shopping", "/", "activities", "/", "by-square">>,
    <<"/", "v1", "/", "reference-data", "/", "locations", "/", "cities">>,
    <<"/", "v1", "/", "shopping", "/", "transfer-offers">>,
    <<"/", "v1", "/", "ordering", "/", "transfer-orders">>,
    <<"/", "v1", "/", "ordering", "/", "transfer-orders", "/", ":", "transferOrderId", "/", "transfers", "/", "cancellation">>,
    <<"/", "v1", "/", "travel", "/", "analytics", "/", "air-traffic", "/", "traveled">>,
    <<"/", "v1", "/", "travel", "/", "analytics", "/", "air-traffic", "/", "booked">>,
    <<"/", "v1", "/", "travel", "/", "analytics", "/", "air-traffic", "/", "busiest-period">>,
    <<"/", "v1", "/", "security", "/", "oauth2", "/", "token">>,
    <<"/", "v1", "/", "reference-data", "/", "locations", "/", "hotels", "/", "by-city">>,
    <<"/", "v3", "/", "shopping", "/", "hotel-offers">>,
    <<"/", "v1", "/", "booking", "/", "hotel-bookings">>,
    <<"/", "v1", "/", "reference-data", "/", "locations", "/", "hotels", "/", "by-hotels">>,
    <<"/", "v1", "/", "reference-data", "/", "locations", "/", "hotels", "/", "by-geocode">>,
    <<"/", "v3", "/", "shopping", "/", "hotel-offers", "/", ":", "hotelOfferId">>,
    <<"/", "v2", "/", "booking", "/", "hotel-orders">>,
    <<"/", "v2", "/", "e-reputation", "/", "hotel-sentiments">>,
    <<"/", "v1", "/", "reference-data", "/", "locations", "/", "hotel">>,
    <<"/", "v1", "/", "travel", "/", "predictions", "/", "trip-purpose">> }

\* String.prototype.split("/"): the segments between the "/" atoms.
RECURSIVE splitSlash(_)
splitSlash(s) ==
  IF \A i \in 1..Len(s) : s[i] # "/"
    THEN <<s>>
    ELSE LET k == CHOOSE i \in 1..Len(s) :
                    s[i] = "/" /\ \A j \in 1..(i - 1) : s[j] # "/"
         IN  <<SubSeq(s, 1, k - 1)>> \o splitSlash(SubSeq(s, k + 1, Len(s)))

\* The regular-expression fragment "[^/]+".
WILD == "[^/]+"

\* The map callback keeping every segment as it is: a placeholder segment
\* is not turned into "[^/]+".
segPatternLiteral(seg) == seg

\* seg.startsWith(":") ? "[^/]+" : seg
segPattern(seg) ==
  IF seg # <<>> /\ seg[1] = ":" THEN <<WILD>> ELSE seg

\* segs.map(...).join("/")
RECURSIVE joinSlash(_)
joinSlash(segs) ==
  IF Len(segs) = 0 THEN <<>>
  ELSE IF Len(segs) = 1 THEN segPattern(segs[1])
  ELSE segPattern(segs[1]) \o <<"/">> \o joinSlash(Tail(segs))

\* The source of the regular expression between "^" and "$".
templateRegex(p) == joinSlash(splitSlash(p))

\* new RegExp("^" + pat + "$").test(s): an anchored match in which a
\* literal atom matches itself and WILD matches one or more atoms other
\* than "/".
RECURSIVE regexTest(_, _)
regexTest(pat, s) ==
  IF pat = <<>> THEN s = <<>>
  ELSE IF Head(pat) = WILD
    THEN \E k \in 1..Len(s) :
            /\ \A i \in 1..k : s[i] # "/"
            /\ regexTest(Tail(pat), SubSeq(s, k + 1, Len(s)))
    ELSE s # <<>> /\ Head(s) = Head(pat) /\ regexTest(Tail(pat), Tail(s))

\* p.includes(":")
includesColon(p) == \E i \in 1..Len(p) : p[i] = ":"

\* pathIsAllowed without its first line, the ALLOWED_PATHS.has(requestPath)
\* test: only the templates are tried.
pathIsAllowedTemplatesOnly(requestPath) ==
  \E p \in ALLOWED_PATHS :
     includesColon(p) /\ regexTest(templateRegex(p), requestPath)

\* pathIsAllowed with prefix matching: requestPath.startsWith(p) for an
\* entry p without placeholder.
pathIsAllowedPrefix(requestPath) ==
  \/ \E p \in ALLOWED_PATHS :
        /\ ~includesColon(p)
        /\ Len(p) <= Len(requestPath)
        /\ SubSeq(requestPath, 1, Len(p)) = p
  \/ \E p \in ALLOWED_PATHS :
        includesColon(p) /\ regexTest(templateRegex(p), requestPath)

\* function pathIsAllowed(requestPath)
pathIsAllowed(requestPath) ==
  \/ requestPath \in ALLOWED_PATHS
  \/ \E p \in ALLOWED_PATHS :
        includesColon(p) /\ regexTest(templateRegex(p), requestPath)

\* encodeURIComponent on one atom: the reserved separators are
\* percent-encoded, every other atom is kept.
encodeAtom(a) ==
  CASE a = "/" -> "%2F"
    [] a = "?" -> "%3F"
    [] a = "#" -> "%23"
    [] a = ":" -> "%3A"
    [] a = "=" -> "%3D"
    [] a = " " -> "%20"
    [] OTHER   -> a

\* The id pasted into the path as it is, without encodeURIComponent.
encodeURIComponentNone(s) == s

\* encodeURIComponent(s)
encodeURIComponent(s) == [i \in 1..Len(s) |-> encodeAtom(s[i])]

(***************************************************************************)
(* The registered tools: file, name, method and the path handed to the     *)
(* forwarder, pre \o encodeURIComponent(id) \o post when the tool takes an *)
(* id.  id is "none" for a fixed path, "ensureString" when the handler     *)
(* checks the id with ensureString, "min1" when its input schema is        *)
(* z.string().min(1) and "string" when it is z.string().                   *)
(***************************************************************************)
ToolsA ==
  { [file |-> "A", name |-> "amadeus.v2.shopping.flight-offers", method |-> "GET", pre |-> <<"/", "v2", "/", "shopping", "/", "flight-offers">>, id |-> "none", post |-> <<>>],
    [file |-> "A", name |-> "amadeus.v1.shopping.flight-dates", method |-> "GET", pre |-> <<"/", "v1", "/", "shopping", "/", "flight-dates">>, id |-> "none", post |-> <<>>],
    [file |-> "A", name |-> "amadeus.v1.shopping.flight-offers.pricing", method |-> "POST", pre |-> <<"/", "v1", "/", "shopping", "/", "flight-offers", "/", "pricing">>, id |-> "none", post |-> <<>>],
    [file |-> "A", name |-> "amadeus.v1.booking.flight-orders", method |-> "POST", pre |-> <<"/", "v1", "/", "booking", "/", "flight-orders">>, id |-> "none", post |-> <<>>],
    [file |-> "A", name |-> "amadeus.v1.booking.flight-orders.by-id", method |-> "GET", pre |-> <<"/", "v1", "/", "booking", "/", "flight-orders", "/">>, id |-> "ensureString", post |-> <<>>],
    [file |-> "A", name |-> "amadeus.v1.shopping.seatmaps", method |-> "POST", pre |-> <<"/", "v1", "/", "shopping", "/", "seatmaps">>, id |-> "none", post |-> <<>>],
    [file |-> "A", name |-> "amadeus.v2.schedule.flights", method |-> "GET", pre |-> <<"/", "v2", "/", "schedule", "/", "flights">>, id |-> "none", post |-> <<>>],
    [file |-> "A", name |-> "amadeus.v1.travel.predictions.flight-delay", method |-> "GET", pre |-> <<"/", "v1", "/", "travel", "/", "predictions", "/", "flight-delay">>, id |-> "none", post |-> <<>>],
    [file |-> "A", name |-> "amadeus.v1.analytics.itinerary-price-metrics", method |-> "GET", pre |-> <<"/", "v1", "/", "analytics", "/", "itinerary-price-metrics">>, id |-> "none", post |-> <<>>],
    [file |-> "A", name |-> "amadeus.v1.shopping.flight-offers.upselling", method |-> "POST", pre |-> <<"/", "v1", "/", "shopping", "/", "flight-offers", "/", "upselling">>, id |-> "none", post |-> <<>>],
    [file |-> "A", name |-> "amadeus.v2.shopping.flight-offers.prediction", method |-> "POST", pre |-> <<"/", "v2", "/", "shopping", "/", "flight-offers", "/", "prediction">>, id |-> "none", post |-> <<>>],
    [file |-> "A", name |-> "amadeus.v1.travel.predictions.trip-purpose", method |-> "GET", pre |-> <<"/", "v1", "/", "travel", "/", "predictions", "/", "trip-purpose">>, id |-> "none", post |-> <<>>],
    [file |-> "A", name |-> "amadeus.v1.shopping.flight-destinations", method |-> "GET", pre |-> <<"/", "v1", "/", "shopping", "/", "flight-destinations">>, id |-> "none", post |-> <<>>],
    [file |-> "A", name |-> "amadeus.v1.shopping.availability.flight-availabilities", method |-> "POST", pre |-> <<"/", "v1", "/", "shopping", "/", "availability", "/", "flight-availabilities">>, id |-> "none", post |-> <<>>],
    [file |-> "A", name |-> "amadeus.v1.reference-data.recommended-locations", method |-> "GET", pre |-> <<"/", "v1", "/", "reference-data", "/", "recommended-locations">>, id |-> "none", post |-> <<>>],
    [file |-> "A", name |-> "amadeus.v1.airport.predictions.on-time", method |-> "GET", pre |-> <<"/", "v1", "/", "airport", "/", "predictions", "/", "on-time">>, id |-> "none", post |-> <<>>],
    [file |-> "A", name |-> "amadeus.v1.reference-data.locations", method |-> "GET", pre |-> <<"/", "v1", "/", "reference-data", "/", "locations">>, id |-> "none", post |-> <<>>],
    [file |-> "A", name |-> "amadeus.v1.reference-data.locations.CMUC", method |-> "GET", pre |-> <<"/", "v1", "/", "reference-data", "/", "locations", "/", "CMUC">>, id |-> "none", post |-> <<>>],
    [file |-> "A", name |-> "amadeus.v1.reference-data.locations.airports", method |-> "GET", pre |-> <<"/", "v1", "/", "reference-data", "/", "locations", "/", "airports">>, id |-> "none", post |-> <<>>],
    [file |-> "A", name |-> "amadeus.v1.airport.direct-destinations", method |-> "GET", pre |-> <<"/", "v1", "/", "airport", "/", "direct-destinations">>, id |-> "none", post |-> <<>>],
    [file |-> "A", name |-> "amadeus.v2.reference-data.urls.checkin-links", method |-> "GET", pre |-> <<"/", "v2", "/", "reference-data", "/", "urls", "/", "checkin-links">>, id |-> "none", post |-> <<>>],
    [file |-> "A", name |-> "amadeus.v1.reference-data.airlines", method |-> "GET", pre |-> <<"/", "v1", "/", "reference-data", "/", "airlines">>, id |-> "none", post |-> <<>>],
    [file |-> "A", name |-> "amadeus.v1.airline.destinations", method |-> "GET", pre |-> <<"/", "v1", "/", "airline", "/", "destinations">>, id |-> "none", post |-> <<>>],
    [file |-> "A", name |-> "amadeus.v1.shopping.activities", method |-> "GET", pre |-> <<"/", "v1", "/", "shopping", "/", "activities">>, id |-> "none", post |-> <<>>],
    [file |-> "A", name |-> "amadeus.v1.shopping.activities.4615", method |-> "GET", pre |-> <<"/", "v1", "/", "shopping", "/", "activities", "/", "4615">>, id |-> "none", post |-> <<>>],
    [file |-> "A", name |-> "amadeus.v1.shopping.activities.by-square", method |-> "GET", pre |-> <<"/", "v1", "/", "shopping", "/", "activities", "/", "by-square">>, id |-> "none", post |-> <<>>],
    [file |-> "A", name |-> "amadeus.v1.reference-data.locations.cities", method |-> "GET", pre |-> <<"/", "v1", "/", "reference-data", "/", "locations", "/", "cities">>, id |-> "none", post |-> <<>>],
    [file |-> "A", name |-> "amadeus.v1.shopping.transfer-offers", method |-> "GET", pre |-> <<"/", "v1", "/", "shopping", "/", "transfer-offers">>, id |-> "none", post |-> <<>>],
    [file |-> "A", name |-> "amadeus.v1.ordering.transfer-orders", method |-> "POST", pre |-> <<"/", "v1", "/", "ordering", "/", "transfer-orders">>, id |-> "none", post |-> <<>>],
    [file |-> "A", name |-> "amadeus.v1.ordering.transfer-orders.cancellation", method |-> "POST", pre |-> <<"/", "v1", "/", "ordering", "/", "transfer-orders", "/">>, id |-> "ensureString", post |-> <<"/", "transfers", "/", "cancellation">>],
    [file |-> "A", name |-> "amadeus.v1.travel.analytics.air-traffic.traveled", method |-> "GET", pre |-> <<"/", "v1", "/", "travel", "/", "analytics", "/", "air-traffic", "/", "traveled">>, id |-> "none", post |-> <<>>],
    [file |-> "A", name |-> "amadeus.v1.travel.analytics.air-traffic.booked", method |-> "GET", pre |-> <<"/", "v1", "/", "travel", "/", "analytics", "/", "air-traffic", "/", "booked">>, id |-> "none", post |-> <<>>],
    [file |-> "A", name |-> "amadeus.v1.travel.analytics.air-traffic.busiest-period", method |-> "GET", pre |-> <<"/", "v1", "/", "travel", "/", "analytics", "/", "air-traffic", "/", "busiest-period">>, id |-> "none", post |-> <<>>],
    [file |-> "A", name |-> "amadeus.v1.reference-data.locations.hotels.by-city", method |-> "GET", pre |-> <<"/", "v1", "/", "reference-data", "/", "locations", "/", "hotels", "/", "by-city">>, id |-> "none", post |-> <<>>],
    [file |-> "A", name |-> "amadeus.v3.shopping.hotel-offers", method |-> "GET", pre |-> <<"/", "v3", "/", "shopping", "/", "hotel-offers">>, id |-> "none", post |-> <<>>],
    [file |-> "A", name |-> "amadeus.v1.booking.hotel-bookings", method |-> "POST", pre |-> <<"/", "v1", "/", "booking", "/", "hotel-bookings">>, id |-> "none", post |-> <<>>],
    [file |-> "A", name |-> "amadeus.v1.reference-data.locations.hotels.by-hotels", method |-> "GET", pre |-> <<"/", "v1", "/", "reference-data", "/", "locations", "/", "hotels", "/", "by-hotels">>, id |-> "none", post |-> <<>>],
    [file |-> "A", name |-> "amadeus.v1.reference-data.locations.hotels.by-geocode", method |-> "GET", pre |-> <<"/", "v1", "/", "reference-data", "/", "locations", "/", "hotels", "/", "by-geocode">>, id |-> "none", post |-> <<>>],
    [file |-> "A", name |-> "amadeus.v3.shopping.hotel-offers.by-id", method |-> "GET", pre |-> <<"/", "v3", "/", "shopping", "/", "hotel-offers", "/">>, id |-> "ensureString", post |-> <<>>],
    [file |-> "A", name |-> "amadeus.v2.booking.hotel-orders", method |-> "POST", pre |-> <<"/", "v2", "/", "booking", "/", "hotel-orders">>, id |-> "none", post |-> <<>>],
    [file |-> "A", name |-> "amadeus.v2.e-reputation.hotel-sentiments", method |-> "GET", pre |-> <<"/", "v2", "/", "e-reputation", "/", "hotel-sentiments">>, id |-> "none", post |-> <<>>],
    [file |-> "A", name |-> "amadeus.v1.reference-data.locations.hotel", method |-> "GET", pre |-> <<"/", "v1", "/", "reference-data", "/", "locations", "/", "hotel">>, id |-> "none", post |-> <<>>] }

ToolsB ==
  { [file |-> "B", name |-> "amadeus.v2.shopping.flight-offers", method |-> "GET", pre |-> <<"/", "v2", "/", "shopping", "/", "flight-offers">>, id |-> "none", post |-> <<>>],
    [file |-> "B", name |-> "amadeus.v1.shopping.flight-dates", method |-> "GET", pre |-> <<"/", "v1", "/", "shopping", "/", "flight-dates">>, id |-> "none", post |-> <<>>],
    [file |-> "B", name |-> "amadeus.v1.shopping.flight-offers.pricing", method |-> "POST", pre |-> <<"/", "v1", "/", "shopping", "/", "flight-offers", "/", "pricing">>, id |-> "none", post |-> <<>>],
    [file |-> "B", name |-> "amadeus.v1.booking.flight-orders", method |-> "POST", pre |-> <<"/", "v1", "/", "booking", "/", "flight-orders">>, id |-> "none", post |-> <<>>],
    [file |-> "B", name |-> "amadeus.v1.booking.flight-orders.by-id", method |-> "GET", pre |-> <<"/", "v1", "/", "booking", "/", "flight-orders", "/">>, id |-> "min1", post |-> <<>>],
    [file |-> "B", name |-> "amadeus.v1.shopping.seatmaps", method |-> "GET", pre |-> <<"/", "v1", "/", "shopping", "/", "seatmaps">>, id |-> "none", post |-> <<>>],
    [file |-> "B", name |-> "amadeus.v1.shopping.seatmaps", method |-> "POST", pre |-> <<"/", "v1", "/", "shopping", "/", "seatmaps">>, id |-> "none", post |-> <<>>],
    [file |-> "B", name |-> "amadeus.v2.schedule.flights", method |-> "GET", pre |-> <<"/", "v2", "/", "schedule", "/", "flights">>, id |-> "none", post |-> <<>>],
    [file |-> "B", name |-> "amadeus.v1.travel.predictions.flight-delay", method |-> "GET", pre |-> <<"/", "v1", "/", "travel", "/", "predictions", "/", "flight-delay">>, id |-> "none", post |-> <<>>],
    [file |-> "B", name |-> "amadeus.v1.analytics.itinerary-price-metrics", method |-> "GET", pre |-> <<"/", "v1", "/", "analytics", "/", "itinerary-price-metrics">>, id |-> "none", post |-> <<>>],
    [file |-> "B", name |-> "amadeus.v1.shopping.flight-offers.upselling", method |-> "POST", pre |-> <<"/", "v1", "/", "shopping", "/", "flight-offers", "/", "upselling">>, id |-> "none", post |-> <<>>],
    [file |-> "B", name |-> "amadeus.v2.shopping.flight-offers.prediction", method |-> "POST", pre |-> <<"/", "v2", "/", "shopping", "/", "flight-offers", "/", "prediction">>, id |-> "none", post |-> <<>>],
    [file |-> "B", name |-> "amadeus.v1.travel.predictions.trip-purpose", method |-> "GET", pre |-> <<"/", "v1", "/", "travel", "/", "predictions", "/", "trip-purpose">>, id |-> "none", post |-> <<>>],
    [file |-> "B", name |-> "amadeus.v1.shopping.flight-destinations", method |-> "GET", pre |-> <<"/", "v1", "/", "shopping", "/", "flight-destinations">>, id |-> "none", post |-> <<>>],
    [file |-> "B", name |-> "amadeus.v1.shopping.availability.flight-availabilities", method |-> "POST", pre |-> <<"/", "v1", "/", "shopping", "/", "availability", "/", "flight-availabilities">>, id |-> "none", post |-> <<>>],
    [file |-> "B", name |-> "amadeus.v1.reference-data.recommended-locations", method |-> "GET", pre |-> <<"/", "v1", "/", "reference-data", "/", "recommended-locations">>, id |-> "none", post |-> <<>>],
    [file |-> "B", name |-> "amadeus.v1.airport.predictions.on-time", method |-> "GET", pre |-> <<"/", "v1", "/", "airport", "/", "predictions", "/", "on-time">>, id |-> "none", post |-> <<>>],
    [file |-> "B", name |-> "amadeus.v1.reference-data.locations", method |-> "GET", pre |-> <<"/", "v1", "/", "reference-data", "/", "locations">>, id |-> "none", post |-> <<>>],
    [file |-> "B", name |-> "amadeus.v1.reference-data.locations.by-id", method |-> "GET", pre |-> <<"/", "v1", "/", "reference-data", "/", "locations", "/">>, id |-> "string", post |-> <<>>],
    [file |-> "B", name |-> "amadeus.v1.reference-data.locations.airports", method |-> "GET", pre |-> <<"/", "v1", "/", "reference-data", "/", "locations", "/", "airports">>, id |-> "none", post |-> <<>>],
    [file |-> "B", name |-> "amadeus.v1.airport.direct-destinations", method |-> "GET", pre |-> <<"/", "v1", "/", "airport", "/", "direct-destinations">>, id |-> "none", post |-> <<>>],
    [file |-> "B", name |-> "amadeus.v2.reference-data.urls.checkin-links", method |-> "GET", pre |-> <<"/", "v2", "/", "reference-data", "/", "urls", "/", "checkin-links">>, id |-> "none", post |-> <<>>],
    [file |-> "B", name |-> "amadeus.v1.reference-data.airlines", method |-> "GET", pre |-> <<"/", "v1", "/", "reference-data", "/", "airlines">>, id |-> "none", post |-> <<>>],
    [file |-> "B", name |-> "amadeus.v1.airline.destinations", method |-> "GET", pre |-> <<"/", "v1", "/", "airline", "/", "destinations">>, id |-> "none", post |-> <<>>],
    [file |-> "B", name |-> "amadeus.v1.shopping.activities", method |-> "GET", pre |-> <<"/", "v1", "/", "shopping", "/", "activities">>, id |-> "none", post |-> <<>>],
    [file |-> "B", name |-> "amadeus.v1.shopping.activities.by-id", method |-> "GET", pre |-> <<"/", "v1", "/", "shopping", "/", "activities", "/">>, id |-> "string", post |-> <<>>],
    [file |-> "B", name |-> "amadeus.v1.shopping.activities.by-square", method |-> "GET", pre |-> <<"/", "v1", "/", "shopping", "/", "activities", "/", "by-square">>, id |-> "none", post |-> <<>>],
    [file |-> "B", name |-> "amadeus.v1.reference-data.locations.cities", method |-> "GET", pre |-> <<"/", "v1", "/", "reference-data", "/", "locations", "/", "cities">>, id |-> "none", post |-> <<>>],
    [file |-> "B", name |-> "amadeus.v1.shopping.transfer-offers", method |-> "POST", pre |-> <<"/", "v1", "/", "shopping", "/", "transfer-offers">>, id |-> "none", post |-> <<>>],
    [file |-> "B", name |-> "amadeus.v1.ordering.transfer-orders", method |-> "POST", pre |-> <<"/", "v1", "/", "ordering", "/", "transfer-orders", "?", "offerId", "=">>, id |-> "min1", post |-> <<>>],
    [file |-> "B", name |-> "amadeus.v1.ordering.transfer-orders.cancellation", method |-> "POST", pre |-> <<"/", "v1", "/", "ordering", "/", "transfer-orders", "/">>, id |-> "min1", post |-> <<"/", "transfers", "/", "cancellation">>],
    [file |-> "B", name |-> "amadeus.v1.travel.analytics.air-traffic.traveled", method |-> "GET", pre |-> <<"/", "v1", "/", "travel", "/", "analytics", "/", "air-traffic", "/", "traveled">>, id |-> "none", post |-> <<>>],
    [file |-> "B", name |-> "amadeus.v1.travel.analytics.air-traffic.booked", method |-> "GET", pre |-> <<"/", "v1", "/", "travel", "/", "analytics", "/", "air-traffic", "/", "booked">>, id |-> "none", post |-> <<>>],
    [file |-> "B", name |-> "amadeus.v1.travel.analytics.air-traffic.busiest-period", method |-> "GET", pre |-> <<"/", "v1", "/", "travel", "/", "analytics", "/", "air-traffic", "/", "busiest-period">>, id |-> "none", post |-> <<>>],
    [file |-> "B", name |-> "amadeus.v1.reference-data.locations.hotels.by-city", method |-> "GET", pre |-> <<"/", "v1", "/", "reference-data", "/", "locations", "/", "hotels", "/", "by-city">>, id |-> "none", post |-> <<>>],
    [file |-> "B", name |-> "amadeus.v3.shopping.hotel-offers", method |-> "GET", pre |-> <<"/", "v3", "/", "shopping", "/", "hotel-offers">>, id |-> "none", post |-> <<>>],
    [file |-> "B", name |-> "amadeus.v1.booking.hotel-bookings", method |-> "POST", pre |-> <<"/", "v1", "/", "booking", "/", "hotel-bookings">>, id |-> "none", post |-> <<>>],
    [file |-> "B", name |-> "amadeus.v1.reference-data.locations.hotels.by-hotels", method |-> "GET", pre |-> <<"/", "v1", "/", "reference-data", "/", "locations", "/", "hotels", "/", "by-hotels">>, id |-> "none", post |-> <<>>],
    [file |-> "B", name |-> "amadeus.v1.reference-data.locations.hotels.by-geocode", method |-> "GET", pre |-> <<"/", "v1", "/", "reference-data", "/", "locations", "/", "hotels", "/", "by-geocode">>, id |-> "none", post |-> <<>>],
    [file |-> "B", name |-> "amadeus.v3.shopping.hotel-offers.by-id", method |-> "GET", pre |-> <<"/", "v3", "/", "shopping", "/", "hotel-offers", "/">>, id |-> "string", post |-> <<>>],
    [file |-> "B", name |-> "amadeus.v2.booking.hotel-orders", method |-> "POST", pre |-> <<"/", "v2", "/", "booking", "/", "hotel-orders">>, id |-> "none", post |-> <<>>],
    [file |-> "B", name |-> "amadeus.v2.e-reputation.hotel-sentiments", method |-> "GET", pre |-> <<"/", "v2", "/", "e-reputation", "/", "hotel-sentiments">>, id |-> "none", post |-> <<>>],
    [file |-> "B", name |-> "amadeus.v1.reference-data.locations.hotel", method |-> "GET", pre |-> <<"/", "v1", "/", "reference-data", "/", "locations", "/", "hotel">>, id |-> "none", post |-> <<>>] }

ToolsC ==
  { [file |-> "C", name |-> "amadeus.v2.shopping.flight-offers", method |-> "GET", pre |-> <<"/", "v2", "/", "shopping", "/", "flight-offers">>, id |-> "none", post |-> <<>>],
    [file |-> "C", name |-> "amadeus.v1.shopping.flight-dates", method |-> "GET", pre |-> <<"/", "v1", "/", "shopping", "/", "flight-dates">>, id |-> "none", post |-> <<>>],
    [file |-> "C", name |-> "amadeus.v1.shopping.flight-offers.pricing", method |-> "POST", pre |-> <<"/", "v1", "/", "shopping", "/", "flight-offers", "/", "pricing">>, id |-> "none", post |-> <<>>],
    [file |-> "C", name |-> "amadeus.v1.booking.flight-orders", method |-> "POST", pre |-> <<"/", "v1", "/", "booking", "/", "flight-orders">>, id |-> "none", post |-> <<>>],
    [file |-> "C", name |-> "amadeus.v1.booking.flight-orders.by-id", method |-> "GET", pre |-> <<"/", "v1", "/", "booking", "/", "flight-orders", "/">>, id |-> "min1", post |-> <<>>],
    [file |-> "C", name |-> "amadeus.v1.shopping.seatmaps", method |-> "GET", pre |-> <<"/", "v1", "/", "shopping", "/", "seatmaps">>, id |-> "none", post |-> <<>>],
    [file |-> "C", name |-> "amadeus.v1.shopping.seatmaps", method |-> "POST", pre |-> <<"/", "v1", "/", "shopping", "/", "seatmaps">>, id |-> "none", post |-> <<>>],
    [file |-> "C", name |-> "amadeus.v2.schedule.flights", method |-> "GET", pre |-> <<"/", "v2", "/", "schedule", "/", "flights">>, id |-> "none", post |-> <<>>],
    [file |-> "C", name |-> "amadeus.v1.travel.predictions.flight-delay", method |-> "GET", pre |-> <<"/", "v1", "/", "travel", "/", "predictions", "/", "flight-delay">>, id |-> "none", post |-> <<>>],
    [file |-> "C", name |-> "amadeus.v1.analytics.itinerary-price-metrics", method |-> "GET", pre |-> <<"/", "v1", "/", "analytics", "/", "itinerary-price-metrics">>, id |-> "none", post |-> <<>>],
    [file |-> "C", name |-> "amadeus.v1.shopping.flight-offers.upselling", method |-> "POST", pre |-> <<"/", "v1", "/", "shopping", "/", "flight-offers", "/", "upselling">>, id |-> "none", post |-> <<>>],
    [file |-> "C", name |-> "amadeus.v2.shopping.flight-offers.prediction", method |-> "POST", pre |-> <<"/", "v2", "/", "shopping", "/", "flight-offers", "/", "prediction">>, id |-> "none", post |-> <<>>],
    [file |-> "C", name |-> "amadeus.v1.travel.predictions.trip-purpose", method |-> "GET", pre |-> <<"/", "v1", "/", "travel", "/", "predictions", "/", "trip-purpose">>, id |-> "none", post |-> <<>>],
    [file |-> "C", name |-> "amadeus.v1.shopping.flight-destinations", method |-> "GET", pre |-> <<"/", "v1", "/", "shopping", "/", "flight-destinations">>, id |-> "none", post |-> <<>>],
    [file |-> "C", name |-> "amadeus.v1.shopping.availability.flight-availabilities", method |-> "POST", pre |-> <<"/", "v1", "/", "shopping", "/", "availability", "/", "flight-availabilities">>, id |-> "none", post |-> <<>>],
    [file |-> "C", name |-> "amadeus.v1.reference-data.recommended-locations", method |-> "GET", pre |-> <<"/", "v1", "/", "reference-data", "/", "recommended-locations">>, id |-> "none", post |-> <<>>],
    [file |-> "C", name |-> "amadeus.v1.airport.predictions.on-time", method |-> "GET", pre |-> <<"/", "v1", "/", "airport", "/", "predictions", "/", "on-time">>, id |-> "none", post |-> <<>>],
    [file |-> "C", name |-> "amadeus.v1.reference-data.locations", method |-> "GET", pre |-> <<"/", "v1", "/", "reference-data", "/", "locations">>, id |-> "none", post |-> <<>>],
    [file |-> "C", name |-> "amadeus.v1.reference-data.locations.by-id", method |-> "GET", pre |-> <<"/", "v1", "/", "reference-data", "/", "locations", "/">>, id |-> "string", post |-> <<>>],
    [file |-> "C", name |-> "amadeus.v1.reference-data.locations.airports", method |-> "GET", pre |-> <<"/", "v1", "/", "reference-data", "/", "locations", "/", "airports">>, id |-> "none", post |-> <<>>],
    [file |-> "C", name |-> "amadeus.v1.airport.direct-destinations", method |-> "GET", pre |-> <<"/", "v1", "/", "airport", "/", "direct-destinations">>, id |-> "none", post |-> <<>>],
    [file |-> "C", name |-> "amadeus.v2.reference-data.urls.checkin-links", method |-> "GET", pre |-> <<"/", "v2", "/", "reference-data", "/", "urls", "/", "checkin-links">>, id |-> "none", post |-> <<>>],
    [file |-> "C", name |-> "amadeus.v1.reference-data.airlines", method |-> "GET", pre |-> <<"/", "v1", "/", "reference-data", "/", "airlines">>, id |-> "none", post |-> <<>>],
    [file |-> "C", name |-> "amadeus.v1.airline.destinations", method |-> "GET", pre |-> <<"/", "v1", "/", "airline", "/", "destinations">>, id |-> "none", post |-> <<>>],
    [file |-> "C", name |-> "amadeus.v1.shopping.activities", method |-> "GET", pre |-> <<"/", "v1", "/", "shopping", "/", "activities">>, id |-> "none", post |-> <<>>],
    [file |-> "C", name |-> "amadeus.v1.shopping.activities.by-id", method |-> "GET", pre |-> <<"/", "v1", "/", "shopping", "/", "activities", "/">>, id |-> "string", post |-> <<>>],
    [file |-> "C", name |-> "amadeus.v1.shopping.activities.by-square", method |-> "GET", pre |-> <<"/", "v1", "/", "shopping", "/", "activities", "/", "by-square">>, id |-> "none", post |-> <<>>],
    [file |-> "C", name |-> "amadeus.v1.reference-data.locations.cities", method |-> "GET", pre |-> <<"/", "v1", "/", "reference-data", "/", "locations", "/", "cities">>, id |-> "none", post |-> <<>>],
    [file |-> "C", name |-> "amadeus.v1.shopping.transfer-offers", method |-> "POST", pre |-> <<"/", "v1", "/", "shopping", "/", "transfer-offers">>, id |-> "none", post |-> <<>>],
    [file |-> "C", name |-> "amadeus.v1.ordering.transfer-orders", method |-> "POST", pre |-> <<"/", "v1", "/", "ordering", "/", "transfer-orders", "?", "offerId", "=">>, id |-> "min1", post |-> <<>>],
    [file |-> "C", name |-> "amadeus.v1.ordering.transfer-orders.cancellation", method |-> "POST", pre |-> <<"/", "v1", "/", "ordering", "/", "transfer-orders", "/">>, id |-> "min1", post |-> <<"/", "transfers", "/", "cancellation">>],
    [file |-> "C", name |-> "amadeus.v1.travel.analytics.air-traffic.traveled", method |-> "GET", pre |-> <<"/", "v1", "/", "travel", "/", "analytics", "/", "air-traffic", "/", "traveled">>, id |-> "none", post |-> <<>>],
    [file |-> "C", name |-> "amadeus.v1.travel.analytics.air-traffic.booked", method |-> "GET", pre |-> <<"/", "v1", "/", "travel", "/", "analytics", "/", "air-traffic", "/", "booked">>, id |-> "none", post |-> <<>>],
    [file |-> "C", name |-> "amadeus.v1.travel.analytics.air-traffic.busiest-period", method |-> "GET", pre |-> <<"/", "v1", "/", "travel", "/", "analytics", "/", "air-traffic", "/", "busiest-period">>, id |-> "none", post |-> <<>>],
    [file |-> "C", name |-> "amadeus.v1.reference-data.locations.hotels.by-city", method |-> "GET", pre |-> <<"/", "v1", "/", "reference-data", "/", "locations", "/", "hotels", "/", "by-city">>, id |-> "none", post |-> <<>>],
    [file |-> "C", name |-> "amadeus.v3.shopping.hotel-offers", method |-> "GET", pre |-> <<"/", "v3", "/", "shopping", "/", "hotel-offers">>, id |-> "none", post |-> <<>>],
    [file |-> "C", name |-> "amadeus.v1.booking.hotel-bookings", method |-> "POST", pre |-> <<"/", "v1", "/", "booking", "/", "hotel-bookings">>, id |-> "none", post |-> <<>>],
    [file |-> "C", name |-> "amadeus.v1.reference-data.locations.hotels.by-hotels", method |-> "GET", pre |-> <<"/", "v1", "/", "reference-data", "/", "locations", "/", "hotels", "/", "by-hotels">>, id |-> "none", post |-> <<>>],
    [file |-> "C", name |-> "amadeus.v1.reference-data.locations.hotels.by-geocode", method |-> "GET", pre |-> <<"/", "v1", "/", "reference-data", "/", "locations", "/", "hotels", "/", "by-geocode">>, id |-> "none", post |-> <<>>],
    [file |-> "C", name |-> "amadeus.v3.shopping.hotel-offers.by-id", method |-> "GET", pre |-> <<"/", "v3", "/", "shopping", "/", "hotel-offers", "/">>, id |-> "string", post |-> <<>>],
    [file |-> "C", name |-> "amadeus.v2.booking.hotel-orders", method |-> "POST", pre |-> <<"/", "v2", "/", "booking", "/", "hotel-orders">>, id |-> "none", post |-> <<>>],
    [file |-> "C", name |-> "amadeus.v2.e-reputation.hotel-sentiments", method |-> "GET", pre |-> <<"/", "v2", "/", "e-reputation", "/", "hotel-sentiments">>, id |-> "none", post |-> <<>>],
    [file |-> "C", name |-> "amadeus.v1.reference-data.locations.hotel", method |-> "GET", pre |-> <<"/", "v1", "/", "reference-data", "/", "locations", "/", "hotel">>, id |-> "none", post |-> <<>>] }

(***************************************************************************)
(* JavaScript values                                                       *)
(***************************************************************************)

\* A body or error payload: undefined, a string, {} , {k: "v"} or {k: []}.
JsUndefined == [t |-> "undefined", k |-> "", v |-> ""]
JsString(s) == [t |-> "string", k |-> "", v |-> s]
JsEmptyObject == [t |-> "object", k |-> "", v |-> ""]
JsObject(k, v) == [t |-> "object", k |-> k, v |-> v]
JsObjectOfArray(k) == [t |-> "objectOfArray", k |-> k, v |-> ""]

\* JSON.stringify(d) for the values above.
JSONstringify(d) ==
  CASE d.t = "string" -> "\"" \o d.v \o "\""
    [] d.t = "object" /\ d.k = "" -> "{}"
    [] d.t = "object" /\ d.k # "" -> "{\"" \o d.k \o "\":\"" \o d.v \o "\"}"
    [] d.t = "objectOfArray" -> "{\"" \o d.k \o "\":[]}"
    [] OTHER -> "undefined"

\* JSON.stringify(d) whatever the type of d: a string body gets quoted.
textOfAlwaysStringify(d) == JSONstringify(d)

\* typeof d === "string" ? d : JSON.stringify(d)
textOf(d) == IF d.t = "string" THEN d.v ELSE JSONstringify(d)

\* !d : undefined and the empty string are falsy, objects are truthy.
falsy(d) == d.t = "undefined" \/ (d.t = "string" /\ d.v = "")

\* return resp.data in place of resp.data.access_token: the body as text.
accessTokenOfWholeBody(d) == JSONstringify(d)

\* d.access_token, as a string ("" when the property is absent).
accessTokenOf(d) ==
  IF d.t = "object" /\ d.k = "access_token" THEN d.v ELSE ""

\* A timeoutMs value: undefined, null, an integer v, the fraction v + 1/2,
\* or a string.
TUndefined == [t |-> "undefined", v |-> 0]
TNull == [t |-> "null", v |-> 0]
TInt(n) == [t |-> "int", v |-> n]
TFrac(n) == [t |-> "frac", v |-> n]
TString == [t |-> "string", v |-> 0]

\* The sentinel for undefined in a field that otherwise holds atoms.
UndefinedStr == <<"<undefined>">>

\* String.prototype.toLowerCase on the header names of the model.
toLowerCase(k) ==
  CASE k \in {"Authorization", "AUTHORIZATION", "aUtHoRiZaTiOn", "authorization"}
         -> "authorization"
    [] k \in {"Content-Type", "CONTENT-TYPE", "content-type"} -> "content-type"
    [] k \in {"X-Trace", "x-trace"} -> "x-trace"
    [] OTHER -> k

\* The object {} .
EmptyHeaders == [k \in {} |-> ""]

(***************************************************************************)
(* TokenProvider: getAmadeusToken                                          *)
(***************************************************************************)

\* const AMADEUS_TOKEN_PATH
AMADEUS_TOKEN_PATH == <<"/", "v1", "/", "security", "/", "oauth2", "/", "token">>

\* What axios delivers for a request: a response (status, data), or an
\* error with a message and possibly a response.
HttpResponse(status, data) ==
  [type |-> "response", status |-> status, data |-> data, message |-> "",
   hasResponse |-> TRUE]
HttpError(message) ==
  [type |-> "error", status |-> 0, data |-> JsUndefined, message |-> message,
   hasResponse |-> FALSE]
HttpErrorWithResponse(message, status, data) ==
  [type |-> "error", status |-> status, data |-> data, message |-> message,
   hasResponse |-> TRUE]

\* axios.post with the default validateStatus rejects every status outside
\* 200..299 with an error carrying the response.
axiosDefault(o) ==
  IF o.type = "response" /\ ~(o.status >= 200 /\ o.status < 300)
    THEN HttpErrorWithResponse(
           "Request failed with status code " \o ToString(o.status),
           o.status, o.data)
    ELSE o

\* The catch block rethrowing the detail without the "Amadeus auth error: "
\* prefix.
authErrorMessageBare(e) ==
  LET detail ==
        IF e.hasResponse /\ e.data.t # "undefined" THEN e.data
        ELSE JsString(e.message)
  IN  textOf(detail)

\* The catch block taking the detail from e.message only, never from
\* e.response.data.
authErrorMessageFromMessage(e) == "Amadeus auth error: " \o e.message

\* The catch block of getAmadeusToken:
\*   detail = e?.response?.data ?? e?.message ?? "Failed to authenticate..."
authErrorMessage(e) ==
  LET detail ==
        IF e.hasResponse /\ e.data.t # "undefined" THEN e.data
        ELSE JsString(e.message)
  IN  "Amadeus auth error: " \o textOf(detail)

\* getAmadeusToken without the check of resp.data.access_token.
getAmadeusTokenResultUnchecked(outcome) ==
  LET o == axiosDefault(outcome) IN
  IF o.type = "response"
    THEN [ok |-> TRUE, token |-> accessTokenOf(o.data), message |-> ""]
    ELSE [ok |-> FALSE, token |-> "", message |-> authErrorMessage(o)]

\* getAmadeusToken testing resp.data.access_token === undefined only: an
\* empty access_token is returned as the token.
getAmadeusTokenResultEmptyOk(outcome) ==
  LET o == axiosDefault(outcome) IN
  IF o.type = "response"
    THEN IF falsy(o.data) \/ ~(o.data.t = "object" /\ o.data.k = "access_token")
           THEN [ok |-> FALSE, token |-> "",
                 message |-> authErrorMessage(
                               HttpError("No access_token in Amadeus response"))]
           ELSE [ok |-> TRUE, token |-> accessTokenOf(o.data), message |-> ""]
    ELSE [ok |-> FALSE, token |-> "", message |-> authErrorMessage(o)]

\* getAmadeusToken with the check of resp.data.access_token placed after
\* the try/catch: the missing-token error is thrown as it is, unwrapped.
getAmadeusTokenResultThrowOutsideTry(outcome) ==
  LET o == axiosDefault(outcome) IN
  IF o.type = "response"
    THEN IF falsy(o.data) \/ accessTokenOf(o.data) = ""
           THEN [ok |-> FALSE, token |-> "",
                 message |-> "No access_token in Amadeus response"]
           ELSE [ok |-> TRUE, token |-> accessTokenOf(o.data), message |-> ""]
    ELSE [ok |-> FALSE, token |-> "", message |-> authErrorMessage(o)]

\* getAmadeusToken after the await: the token it returns, or the message of
\* the error it throws.
getAmadeusTokenResult(outcome) ==
  LET o == axiosDefault(outcome) IN
  IF o.type = "response"
    THEN IF falsy(o.data) \/ accessTokenOf(o.data) = ""
           THEN [ok |-> FALSE, token |-> "",
                 message |-> authErrorMessage(
                               HttpError("No access_token in Amadeus response"))]
           ELSE [ok |-> TRUE, token |-> accessTokenOf(o.data), message |-> ""]
    ELSE [ok |-> FALSE, token |-> "", message |-> authErrorMessage(o)]

(***************************************************************************)
(* Input validation                                                        *)
(***************************************************************************)

\* z.string().transform((s) => s.toUpperCase()) on the methods of the model.
toUpperCase(m) ==
  CASE m \in {"get", "GET"} -> "GET"
    [] m \in {"post", "POST"} -> "POST"
    [] m \in {"delete", "DELETE"} -> "DELETE"
    [] OTHER -> m

\* .refine((m) => ["GET", "POST", "PUT", "PATCH", "DELETE"].includes(m))
methodRefine(m) == m \in {"GET", "POST", "PUT", "PATCH", "DELETE"}

\* The refine of headers looking up "authorization" without lower-casing
\* the keys.
headersRefineExactKey(h) == "authorization" \notin DOMAIN h

\* The refine of RequestSchema.headers: no key that lower-cases to
\* "authorization".
headersRefine(h) == ~(\E k \in DOMAIN h : toLowerCase(k) = "authorization")

\* z.number().int().positive().max(60000).default(15000)
zTimeoutOk(t) ==
  \/ t.t = "undefined"
  \/ t.t = "int" /\ t.v > 0 /\ t.v <= 60000

zTimeout(t) == IF t.t = "undefined" THEN 15000 ELSE t.v

\* z.string().default("application/json"); "<undefined>" is an absent field.
CtUndefined == "<undefined>"
zContentType(ct) == IF ct = CtUndefined THEN "application/json" ELSE ct

\* .startsWith("/")
startsWithSlash(path) == path # <<>> /\ path[1] = "/"

\* RequestSchema.parse without the .refine(pathIsAllowed, ...) of path.
RequestSchemaOkNoPathRefine(inp) ==
  /\ Len(inp.serviceName) >= 2
  /\ Len(inp.apiKey) >= 1
  /\ Len(inp.apiSecret) >= 1
  /\ methodRefine(toUpperCase(inp.method))
  /\ startsWithSlash(inp.path)
  /\ headersRefine(inp.headers)
  /\ zTimeoutOk(inp.timeoutMs)

\* RequestSchema.parse(input) succeeds (src/index.js).
RequestSchemaOk(inp) ==
  /\ Len(inp.serviceName) >= 2
  /\ Len(inp.apiKey) >= 1
  /\ Len(inp.apiSecret) >= 1
  /\ methodRefine(toUpperCase(inp.method))
  /\ startsWithSlash(inp.path)
  /\ pathIsAllowed(inp.path)
  /\ headersRefine(inp.headers)
  /\ zTimeoutOk(inp.timeoutMs)

\* The value RequestSchema.parse(input) returns.
RequestSchemaParse(inp) ==
  [serviceName |-> inp.serviceName, apiKey |-> inp.apiKey,
   apiSecret |-> inp.apiSecret, method |-> toUpperCase(inp.method),
   path |-> inp.path, headers |-> inp.headers,
   contentType |-> zContentType(inp.contentType),
   timeoutMs |-> zTimeout(inp.timeoutMs)]

\* The message of the first issue RequestSchema.parse(input) reports.
RequestSchemaError(inp) ==
  CASE Len(inp.serviceName) < 2 -> "serviceName is required"
    [] Len(inp.apiKey) < 1 -> "apiKey is required"
    [] Len(inp.apiSecret) < 1 -> "apiSecret is required"
    [] ~methodRefine(toUpperCase(inp.method))
         -> "method must be one of GET, POST, PUT, PATCH, DELETE"
    [] ~startsWithSlash(inp.path) -> "path must start with '/'"
    [] ~pathIsAllowed(inp.path) -> "path is not allowed by server policy"
    [] ~headersRefine(inp.headers)
         -> "Do not send Authorization; it will be set by the server."
    [] OTHER -> "Invalid timeoutMs"

\* val.trim() === "" for a TLA+ string of the model.
blankString(s) == s \in {"", " ", "  "}

\* val.trim() === "" for a sequence of atoms.
blankAtoms(s) == \A i \in 1..Len(s) : s[i] = " "

\* ensureString testing the type only: typeof val !== "string".
ensureStringOkTypeOnly(s) == Len(s) >= 0

\* ensureString(val, name) returns (a string field of the model is always
\* of type string).
ensureStringOk(s) == ~blankString(s)

\* ensureString(val, name) returns, for an id.
ensureIdOk(id) == id # UndefinedStr /\ ~blankAtoms(id)

\* assertNoAuthHeader looking up "authorization" without lower-casing the keys.
assertNoAuthHeaderExactKey(h) == "authorization" \notin DOMAIN h

\* assertNoAuthHeader(headers) returns.
assertNoAuthHeaderOk(h) ==
  ~(\E k \in DOMAIN h : toLowerCase(k) = "authorization")

\* normalizeBase refusing what is not an integer: only an absent timeoutMs
\* becomes 15000, any other non-integer becomes 0 and fails the range test.
normalizeTimeoutStrict(t) ==
  IF t.t = "int" THEN t.v ELSE IF t.t = "undefined" THEN 15000 ELSE 0

\* Number.isInteger(input.timeoutMs) ? input.timeoutMs : 15000
normalizeTimeout(t) == IF t.t = "int" THEN t.v ELSE 15000

\* normalizeBase(input) returns.
normalizeBaseOk(inp) ==
  /\ ensureStringOk(inp.serviceName)
  /\ ensureStringOk(inp.apiKey)
  /\ ensureStringOk(inp.apiSecret)
  /\ assertNoAuthHeaderOk(inp.headers)
  /\ normalizeTimeout(inp.timeoutMs) > 0
  /\ normalizeTimeout(inp.timeoutMs) <= 60000

\* The message of the error normalizeBase(input) throws.
normalizeBaseError(inp) ==
  CASE ~ensureStringOk(inp.serviceName) -> "serviceName must be a non-empty string"
    [] ~ensureStringOk(inp.apiKey) -> "apiKey must be a non-empty string"
    [] ~ensureStringOk(inp.apiSecret) -> "apiSecret must be a non-empty string"
    [] ~assertNoAuthHeaderOk(inp.headers)
         -> "Do not send Authorization; it will be set by the server."
    [] OTHER -> "timeoutMs must be a positive integer up to 60000"

\* The path a tool hands to the forwarder.
toolPath(tool, id) ==
  IF tool.id = "none" THEN tool.pre
  ELSE tool.pre \o encodeURIComponent(id) \o tool.post

\* { ...args, method, path } of a file-A handler.
normalizeBase(inp) ==
  [serviceName |-> inp.serviceName, apiKey |-> inp.apiKey,
   apiSecret |-> inp.apiSecret, method |-> inp.tool.method,
   path |-> toolPath(inp.tool, inp.id), headers |-> inp.headers,
   contentType |-> zContentType(inp.contentType),
   timeoutMs |-> normalizeTimeout(inp.timeoutMs)]

\* The input schema of a file-B or file-C tool accepts the input: the id
\* field is z.string() or z.string().min(1), timeoutMs as in RequestSchema.
envSchemaOk(inp) ==
  /\ zTimeoutOk(inp.timeoutMs)
  /\ inp.tool.id # "none" => inp.id # UndefinedStr
  /\ inp.tool.id = "min1" => Len(inp.id) >= 1

\* getEnvAuth testing the API key only: if (!apiKey) throw ...
getEnvAuthOkKeyOnly(e) == e.AMADEUS_API_KEY # ""

\* getEnvAuth() returns: !apiKey || !apiSecret is false.
getEnvAuthOk(e) == e.AMADEUS_API_KEY # "" /\ e.AMADEUS_API_SECRET # ""

\* process.env.AMADEUS_SERVICE_NAME || process.env.AMADEUS_ENV || "test"
envServiceName(e) ==
  IF e.AMADEUS_SERVICE_NAME # "" THEN e.AMADEUS_SERVICE_NAME
  ELSE IF e.AMADEUS_ENV # "" THEN e.AMADEUS_ENV
  ELSE "test"

\* The arguments a file-B or file-C handler passes to forwardAmadeus.
envArgs(e, inp) ==
  [serviceName |-> envServiceName(e), apiKey |-> e.AMADEUS_API_KEY,
   apiSecret |-> e.AMADEUS_API_SECRET, method |-> inp.tool.method,
   path |-> toolPath(inp.tool, inp.id), headers |-> EmptyHeaders,
   contentType |-> "application/json",
   timeoutMs |-> zTimeout(inp.timeoutMs)]

(***************************************************************************)
(* RequestForwarder                                                        *)
(***************************************************************************)

\* A service name as the characters a URL parser tells apart: "/" is an
\* atom of its own.
serviceNameAtoms(serviceName) ==
  IF serviceName = "evil.example/" THEN <<"evil.example", "/">>
  ELSE <<serviceName>>

\* `https://${serviceName}.api.amadeus.com${path}`, after "https://".
urlAfterScheme(serviceName, path) ==
  serviceNameAtoms(serviceName) \o <<".api.amadeus.com">> \o path

\* The authority of a URL: what follows the scheme, up to the first "/",
\* "?" or "#".
RECURSIVE authority(_)
authority(u) ==
  IF u = <<>> \/ Head(u) \in {"/", "?", "#"} THEN <<>>
  ELSE <<Head(u)>> \o authority(Tail(u))

\* The host axios connects to for a request.
requestHost(r) == authority(urlAfterScheme(r.serviceName, r.path))

\* The token request of getAmadeusToken: axios.post(tokenURL, form, ...)
\* with tokenURL = https://{serviceName}.api.amadeus.com/v1/security/oauth2/token.
tokenRequest(a) ==
  [kind |-> "token", serviceName |-> a.serviceName, method |-> "POST",
   path |-> AMADEUS_TOKEN_PATH,
   client_id |-> a.apiKey, client_secret |-> a.apiSecret,
   headers |-> [k \in {"Content-Type"} |-> "application/x-www-form-urlencoded"],
   timeout |-> a.timeoutMs]

\* { ...headers, Authorization: `Bearer ${token}`, "Content-Type": contentType }
requestHeaders(h, tok, contentType) ==
  [k \in DOMAIN h \cup {"Authorization", "Content-Type"} |->
     IF k = "Authorization" THEN "Bearer " \o tok
     ELSE IF k = "Content-Type" THEN contentType
     ELSE h[k]]

\* The resource request: axios.request({ method, url, headers, timeout, ... })
\* with url = https://{serviceName}.api.amadeus.com{path}.
resourceRequest(a, tok) ==
  [kind |-> "resource", serviceName |-> a.serviceName, method |-> a.method,
   path |-> a.path, client_id |-> "", client_secret |-> "",
   headers |-> requestHeaders(a.headers, tok, a.contentType),
   timeout |-> a.timeoutMs]

NoResult == [kind |-> "none", text |-> "", isError |-> FALSE]
Returned(text, isError) == [kind |-> "return", text |-> text, isError |-> isError]
Thrown(message) == [kind |-> "throw", text |-> message, isError |-> FALSE]

\* The amadeus.request handler of src/index.js after its axios.request:
\* validateStatus is () => true, so every status is a response; an error is
\* caught and turned into a "Forwarding error" result.
requestHandlerResult(o) ==
  IF o.type = "response"
    THEN Returned(textOf(o.data), o.status >= 400)
    ELSE LET status == IF o.hasResponse THEN o.status ELSE 500
             data == IF o.hasResponse /\ o.data.t # "undefined" THEN o.data
                     ELSE JsObject("error",
                            IF o.message # "" THEN o.message ELSE "Unknown error")
         IN  Returned("Forwarding error (" \o ToString(status) \o "): "
                        \o textOf(data), TRUE)

\* forwardAmadeus with isError: response.status > 400.
forwardAmadeusResultStrict(o) ==
  IF o.type = "response"
    THEN Returned(textOf(o.data), o.status > 400)
    ELSE Thrown(o.message)

\* forwardAmadeus and its handler after axios.request: no try/catch, an
\* error of axios.request leaves forwardAmadeus and the handler.
forwardAmadeusResult(o) ==
  IF o.type = "response"
    THEN Returned(textOf(o.data), o.status >= 400)
    ELSE Thrown(o.message)

(***************************************************************************)
(* The tools and inputs of the model                                       *)
(***************************************************************************)

\* amadeus.request as registered by src/index.js.
RequestTool ==
  [file |-> "index.js", name |-> "amadeus.request", method |-> "",
   pre |-> <<>>, id |-> "none", post |-> <<>>]

\* amadeus.request as registered by file A, where RequestSchema is a plain
\* object.
RequestToolA ==
  [file |-> "A", name |-> "amadeus.request", method |-> "",
   pre |-> <<>>, id |-> "none", post |-> <<>>]

NoTool ==
  [file |-> "", name |-> "", method |-> "", pre |-> <<>>, id |-> "none",
   post |-> <<>>]

NormNames ==
  {"amadeus.v2.shopping.flight-offers", "amadeus.v1.booking.flight-orders.by-id",
   "amadeus.v1.ordering.transfer-orders.cancellation"}

EnvNames ==
  {"amadeus.v2.shopping.flight-offers",
   "amadeus.v1.booking.flight-orders.by-id",
   "amadeus.v1.reference-data.locations.by-id",
   "amadeus.v1.ordering.transfer-orders",
   "amadeus.v3.shopping.hotel-offers.by-id"}

\* The tools whose invocations the behaviours of the model hold.
NormTools == {t \in ToolsA : t.name \in NormNames}
EnvTools ==
  {t \in ToolsB : t.name \in EnvNames}
    \cup {t \in ToolsC : t.name = "amadeus.v1.ordering.transfer-orders.cancellation"}

Input(tool, serviceName, apiKey, apiSecret, method, path, headers, contentType, timeoutMs, id) ==
  [tool |-> tool, serviceName |-> serviceName, apiKey |-> apiKey,
   apiSecret |-> apiSecret, method |-> method, path |-> path,
   headers |-> headers, contentType |-> contentType,
   timeoutMs |-> timeoutMs, id |-> id]

NoInput ==
  Input(NoTool, "", "", "", "", <<>>, EmptyHeaders, CtUndefined, TUndefined, UndefinedStr)

FlightOffersPath == <<"/", "v2", "/", "shopping", "/", "flight-offers">>

ReqPaths ==
  { FlightOffersPath,
    <<"/", "v1", "/", "booking", "/", "flight-orders", "/", "ABC123">>,
    <<"/", "v1", "/", "unknown", "/", "endpoint">>,
    <<"/", "v1", "/", "booking", "/", "flight-orders", "/">>,
    <<"v2", "/", "shopping", "/", "flight-offers">> }

HeaderMaps ==
  { EmptyHeaders,
    [k \in {"X-Trace"} |-> "1"],
    [k \in {"Authorization"} |-> "Bearer evil"],
    [k \in {"authorization"} |-> "evil"],
    [k \in {"X-Trace", "aUtHoRiZaTiOn"} |-> "evil"],
    [k \in {"content-type"} |-> "text/xml"] }

ContentTypes == {CtUndefined, "text/plain"}

Timeouts ==
  { TUndefined, TNull, TInt(0), TInt(60000), TInt(60001), TFrac(1),
    TFrac(60000), TString }

Ids ==
  { UndefinedStr, <<>>, <<" ">>, <<"ABC123">>, <<"CMUC">>,
    <<"a", "/", "b">>, <<"x", "?", "y">> }

\* Inputs of amadeus.request (src/index.js).
RequestInputs ==
  { Input(RequestTool, "test", "key", "secret", "get", p, h, ct, t, UndefinedStr) :
      p \in ReqPaths, h \in HeaderMaps, ct \in ContentTypes, t \in Timeouts }
  \cup
  { Input(RequestTool, sn, k, sec, m, FlightOffersPath, EmptyHeaders, CtUndefined,
          TUndefined, UndefinedStr) :
      sn \in {"test", "t", "evil.example/"}, k \in {"key", ""},
      sec \in {"secret", " "}, m \in {"POST", "TRACE"} }

\* Inputs of amadeus.request (file A).
RequestInputsA ==
  { Input(RequestToolA, "test", "key", "secret", "get", p, EmptyHeaders, CtUndefined,
          TUndefined, UndefinedStr) : p \in ReqPaths }

\* Inputs of the file-A tools.
NormInputs ==
  { Input(tool, "test", "key", "secret", "", <<>>, h, ct, t,
          IF tool.id = "none" THEN UndefinedStr ELSE <<"ABC123">>) :
      tool \in NormTools, h \in HeaderMaps, ct \in ContentTypes, t \in Timeouts }
  \cup
  { Input(tool, sn, k, sec, "", <<>>, EmptyHeaders, CtUndefined, TUndefined, id) :
      tool \in {x \in NormTools : x.id # "none"},
      sn \in {"test", " "}, k \in {"key", ""}, sec \in {"secret", " "},
      id \in Ids }

\* Inputs of the file-B and file-C tools.
EnvInputs ==
  { Input(tool, "", "", "", "", <<>>, EmptyHeaders, CtUndefined, t,
          IF tool.id = "none" THEN UndefinedStr ELSE id) :
      tool \in EnvTools, t \in {TUndefined, TInt(60000), TInt(60001), TFrac(1)},
      id \in Ids }

\* process.env
Env(serviceName, envName, apiKey, apiSecret) ==
  [AMADEUS_SERVICE_NAME |-> serviceName, AMADEUS_ENV |-> envName,
   AMADEUS_API_KEY |-> apiKey, AMADEUS_API_SECRET |-> apiSecret]

Envs ==
  { Env("", "", "envkey", "envsecret"),
    Env("production", "", "", "envsecret"),
    Env("", "production", "envkey", "") }

\* What the token endpoint may answer.
TokenOutcomes ==
  { HttpResponse(200, JsObject("access_token", "tokA")),
    HttpResponse(200, JsObject("access_token", "tokB")),
    HttpResponse(201, JsObject("access_token", "tokC")),
    HttpResponse(200, JsEmptyObject),
    HttpResponse(200, JsObject("access_token", "")),
    HttpResponse(200, JsUndefined),
    HttpResponse(204, JsString("")),
    HttpResponse(401, JsObject("error", "invalid_client")),
    HttpResponse(401, JsString("")),
    HttpResponse(403, JsString("Forbidden")),
    HttpResponse(500, JsUndefined),
    HttpError("timeout of 15000ms exceeded") }

\* What a resource endpoint may answer.
ResourceOutcomes ==
  { HttpResponse(200, JsObjectOfArray("data")),
    HttpResponse(200, JsString("ok")),
    HttpResponse(399, JsString("redirect")),
    HttpResponse(400, JsObject("error", "bad request")),
    HttpResponse(404, JsObject("error", "not found")),
    HttpResponse(500, JsString("oops")),
    HttpError("connect ECONNREFUSED"),
    HttpError(""),
    HttpErrorWithResponse("maxContentLength size of 10 exceeded", 502,
                          JsString("bad gateway")) }

(***************************************************************************)
(* State                                                                   *)
(***************************************************************************)

VARIABLES
  pc,         \* per invocation: "idle", "awaitToken", "awaitResponse",
              \* "returned" or "thrown"
  call,       \* per invocation: the tool and the input it was called with
  args,       \* per invocation: the validated arguments of the forwarder
  token,      \* per invocation: the local `token`
  result,     \* per invocation: what the handler returned or threw
  sent,       \* per invocation: the requests it issued, in order
  recv,       \* per invocation: what axios delivered to it, in order
  env,        \* process.env
  nCalls,     \* invocations so far
  nForwarded, \* invocations that passed validation and entered the forwarder
  nTokenReq,  \* token requests issued so far
  nResReq,    \* resource requests issued so far
  probe       \* the last direct call of pathIsAllowed: its argument and
              \* what it returned

vars ==
  <<pc, call, args, token, result, sent, recv, env, nCalls, nForwarded,
    nTokenReq, nResReq, probe>>

AllSlots == 1..MaxCalls

NoArgs ==
  [serviceName |-> "", apiKey |-> "", apiSecret |-> "", method |-> "",
   path |-> <<>>, headers |-> EmptyHeaders, contentType |-> "", timeoutMs |-> 0]

\* No call of pathIsAllowed is under way.
NoProbe == [path |-> <<>>, called |-> FALSE, allowed |-> FALSE]

Init ==
  /\ pc = [c \in AllSlots |-> "idle"]
  /\ call = [c \in AllSlots |-> NoInput]
  /\ args = [c \in AllSlots |-> NoArgs]
  /\ token = [c \in AllSlots |-> ""]
  /\ result = [c \in AllSlots |-> NoResult]
  /\ sent = [c \in AllSlots |-> <<>>]
  /\ recv = [c \in AllSlots |-> <<>>]
  /\ env \in Envs
  /\ nCalls = 0
  /\ nForwarded = 0
  /\ nTokenReq = 0
  /\ nResReq = 0
  /\ probe = NoProbe

\* A new invocation may start in slot c: the slot holds no invocation and
\* the bound on invocations is not reached.
CanInvoke(c) == pc[c] = "idle" /\ nCalls < MaxCalls

\* The handler throws before it reaches the forwarder.
ThrowBeforeForward(c, inp, message) ==
  /\ pc' = [pc EXCEPT ![c] = "thrown"]
  /\ call' = [call EXCEPT ![c] = inp]
  /\ result' = [result EXCEPT ![c] = Thrown(message)]
  /\ nCalls' = nCalls + 1
  /\ UNCHANGED <<args, token, sent, recv, env, nForwarded, nTokenReq, nResReq, probe>>

\* A forwarder that keeps the first token: once a token request has been
\* issued, later invocations skip theirs and send the resource request.
BeginForwardCached(c, inp, a) ==
  /\ call' = [call EXCEPT ![c] = inp]
  /\ args' = [args EXCEPT ![c] = a]
  /\ nCalls' = nCalls + 1
  /\ nForwarded' = nForwarded + 1
  /\ IF nTokenReq = 0
       THEN /\ pc' = [pc EXCEPT ![c] = "awaitToken"]
            /\ sent' = [sent EXCEPT ![c] = Append(@, tokenRequest(a))]
            /\ nTokenReq' = nTokenReq + 1
            /\ UNCHANGED <<token, nResReq>>
       ELSE /\ pc' = [pc EXCEPT ![c] = "awaitResponse"]
            /\ token' = [token EXCEPT ![c] = "tokA"]
            /\ sent' = [sent EXCEPT ![c] = Append(@, resourceRequest(a, "tokA"))]
            /\ nResReq' = nResReq + 1
            /\ UNCHANGED nTokenReq
  /\ UNCHANGED <<result, recv, env, probe>>

\* The forwarder starts with arguments a: getAmadeusToken issues the token
\* request and the invocation awaits its answer.
BeginForward(c, inp, a) ==
  /\ pc' = [pc EXCEPT ![c] = "awaitToken"]
  /\ call' = [call EXCEPT ![c] = inp]
  /\ args' = [args EXCEPT ![c] = a]
  /\ sent' = [sent EXCEPT ![c] = Append(@, tokenRequest(a))]
  /\ nCalls' = nCalls + 1
  /\ nForwarded' = nForwarded + 1
  /\ nTokenReq' = nTokenReq + 1
  /\ UNCHANGED <<token, result, recv, env, nResReq, probe>>

\* amadeus.request of src/index.js, up to its first await.
InvokeRequest(c, inputs) ==
  /\ CanInvoke(c)
  /\ \E inp \in inputs :
        IF RequestSchemaOk(inp)
          THEN BeginForward(c, inp, RequestSchemaParse(inp))
          ELSE ThrowBeforeForward(c, inp, RequestSchemaError(inp))

\* amadeus.request of file A: RequestSchema is a plain object without a
\* parse method, so RequestSchema.parse(input) throws a TypeError.
InvokeRequestA(c, inputs) ==
  /\ CanInvoke(c)
  /\ \E inp \in inputs :
        ThrowBeforeForward(c, inp, "RequestSchema.parse is not a function")

\* A file-A tool, up to its first await: normalizeBase, then ensureString
\* on the id of a by-id tool, then forwardAmadeus.
InvokeNormalized(c, inputs) ==
  /\ CanInvoke(c)
  /\ \E inp \in inputs :
        IF ~normalizeBaseOk(inp)
          THEN ThrowBeforeForward(c, inp, normalizeBaseError(inp))
        ELSE IF inp.tool.id # "none" /\ ~ensureIdOk(inp.id)
          THEN ThrowBeforeForward(c, inp, "id must be a non-empty string")
        ELSE BeginForward(c, inp, normalizeBase(inp))

\* A file-B or file-C tool, up to its first await: the input schema, then
\* getEnvAuth, then forwardAmadeus.
InvokeEnv(c, inputs) ==
  /\ CanInvoke(c)
  /\ \E inp \in inputs :
        IF ~envSchemaOk(inp)
          THEN ThrowBeforeForward(c, inp, "Invalid arguments")
        ELSE IF ~getEnvAuthOk(env)
          THEN ThrowBeforeForward(c, inp,
                 "Missing AMADEUS_API_KEY or AMADEUS_API_SECRET in environment")
        ELSE BeginForward(c, inp, envArgs(env, inp))

\* `token` read from a binding shared by all invocations (that of slot 1).
localTokenShared(tok, c) == tok[1]

\* `token` as read by the invocation in slot c: its own binding.
localToken(tok, c) == tok[c]

\* A forwarder that retries: after a failed token exchange it issues the
\* token request once more before giving up.
TokenArrivesRetry(c, outcomes) ==
  /\ pc[c] = "awaitToken"
  /\ \E o \in outcomes :
       LET r == getAmadeusTokenResult(o) IN
       /\ recv' = [recv EXCEPT ![c] = Append(@, o)]
       /\ IF r.ok
            THEN /\ token' = [token EXCEPT ![c] = r.token]
                 /\ sent' = [sent EXCEPT ![c] =
                               Append(@, resourceRequest(args[c], r.token))]
                 /\ pc' = [pc EXCEPT ![c] = "awaitResponse"]
                 /\ nResReq' = nResReq + 1
                 /\ UNCHANGED <<result, nTokenReq>>
            ELSE IF Len(sent[c]) < 2
              THEN /\ sent' = [sent EXCEPT ![c] = Append(@, tokenRequest(args[c]))]
                   /\ nTokenReq' = nTokenReq + 1
                   /\ UNCHANGED <<pc, token, result, nResReq>>
              ELSE /\ pc' = [pc EXCEPT ![c] = "thrown"]
                   /\ result' = [result EXCEPT ![c] = Thrown(r.message)]
                   /\ UNCHANGED <<token, sent, nResReq, nTokenReq>>
  /\ UNCHANGED <<call, args, env, nCalls, nForwarded, probe>>

\* A token fetch whose failure never settles the invocation: the error is
\* swallowed and the promise of the handler stays pending.
TokenArrivesNoSettle(c, outcomes) ==
  /\ pc[c] = "awaitToken"
  /\ \E o \in outcomes :
       LET r == getAmadeusTokenResult(o) IN
       /\ recv' = [recv EXCEPT ![c] = Append(@, o)]
       /\ IF r.ok
            THEN /\ token' = [token EXCEPT ![c] = r.token]
                 /\ sent' = [sent EXCEPT ![c] =
                               Append(@, resourceRequest(args[c], r.token))]
                 /\ pc' = [pc EXCEPT ![c] = "awaitResponse"]
                 /\ nResReq' = nResReq + 1
                 /\ UNCHANGED result
            ELSE /\ pc' = [pc EXCEPT ![c] = "pending"]
                 /\ UNCHANGED <<token, result, sent, nResReq>>
  /\ UNCHANGED <<call, args, env, nCalls, nForwarded, nTokenReq, probe>>

\* The answer to the token request arrives: getAmadeusToken returns the
\* token and the resource request is issued, or it throws and the error
\* leaves the forwarder and the handler.
TokenArrives(c, outcomes) ==
  /\ pc[c] = "awaitToken"
  /\ \E o \in outcomes :
       LET r == getAmadeusTokenResult(o) IN
       /\ recv' = [recv EXCEPT ![c] = Append(@, o)]
       /\ IF r.ok
            THEN /\ token' = [token EXCEPT ![c] = r.token]
                 /\ sent' = [sent EXCEPT ![c] =
                               Append(@, resourceRequest(args[c], localToken(token', c)))]
                 /\ pc' = [pc EXCEPT ![c] = "awaitResponse"]
                 /\ nResReq' = nResReq + 1
                 /\ UNCHANGED result
            ELSE /\ pc' = [pc EXCEPT ![c] = "thrown"]
                 /\ result' = [result EXCEPT ![c] = Thrown(r.message)]
                 /\ UNCHANGED <<token, sent, nResReq>>
  /\ UNCHANGED <<call, args, env, nCalls, nForwarded, nTokenReq, probe>>

\* The answer to the resource request arrives.
Finish(c, res) ==
  /\ pc' = [pc EXCEPT ![c] = IF res.kind = "return" THEN "returned" ELSE "thrown"]
  /\ result' = [result EXCEPT ![c] = res]
  /\ UNCHANGED <<call, args, token, sent, env, nCalls, nForwarded, nTokenReq, nResReq,
                  probe>>

\* ... in the amadeus.request handler of src/index.js.
RequestResponds(c, outcomes) ==
  /\ pc[c] = "awaitResponse"
  /\ call[c].tool.file = "index.js"
  /\ \E o \in outcomes :
       /\ recv' = [recv EXCEPT ![c] = Append(@, o)]
       /\ Finish(c, requestHandlerResult(o))

\* ... in forwardAmadeus, called by a tool of file A, B or C.
ForwardResponds(c, outcomes) ==
  /\ pc[c] = "awaitResponse"
  /\ call[c].tool.file # "index.js"
  /\ \E o \in outcomes :
       /\ recv' = [recv EXCEPT ![c] = Append(@, o)]
       /\ Finish(c, forwardAmadeusResult(o))

\* The invocation is over: its promise is settled and its locals are gone.
Complete(c) ==
  /\ pc[c] \in {"returned", "thrown"}
  /\ pc' = [pc EXCEPT ![c] = "idle"]
  /\ call' = [call EXCEPT ![c] = NoInput]
  /\ args' = [args EXCEPT ![c] = NoArgs]
  /\ token' = [token EXCEPT ![c] = ""]
  /\ result' = [result EXCEPT ![c] = NoResult]
  /\ sent' = [sent EXCEPT ![c] = <<>>]
  /\ recv' = [recv EXCEPT ![c] = <<>>]
  /\ UNCHANGED <<env, nCalls, nForwarded, nTokenReq, nResReq, probe>>

\* Invocations one after another, over all inputs of the model.
Next ==
  \/ InvokeRequest(1, RequestInputs)
  \/ InvokeRequestA(1, RequestInputsA)
  \/ InvokeNormalized(1, NormInputs)
  \/ InvokeEnv(1, EnvInputs)
  \/ TokenArrives(1, TokenOutcomes)
  \/ RequestResponds(1, ResourceOutcomes)
  \/ ForwardResponds(1, ResourceOutcomes)
  \/ Complete(1)

Spec == Init /\ [][Next]_vars

(***************************************************************************)
(* Concurrent invocations, over a few inputs                               *)
(***************************************************************************)

ConcRequestInputs ==
  { Input(RequestTool, "test", "key", "secret", "get", p, [k \in {"X-Trace"} |-> "1"],
          CtUndefined, TUndefined, UndefinedStr) :
      p \in {FlightOffersPath, <<"/", "v1", "/", "unknown", "/", "endpoint">>} }

ConcNormInputs ==
  { Input(tool, "test", k, "secret", "", <<>>, EmptyHeaders, CtUndefined, TUndefined,
          UndefinedStr) :
      tool \in {t \in NormTools : t.id = "none"}, k \in {"key", ""} }

ConcTokenOutcomes ==
  { HttpResponse(200, JsObject("access_token", "tokA")),
    HttpResponse(200, JsObject("access_token", "tokB")),
    HttpResponse(401, JsObject("error", "invalid_client")),
    HttpError("timeout of 15000ms exceeded") }

ConcResourceOutcomes ==
  { HttpResponse(200, JsObjectOfArray("data")),
    HttpError("connect ECONNREFUSED") }

NextConc ==
  \E c \in AllSlots :
    \/ InvokeRequest(c, ConcRequestInputs)
    \/ InvokeNormalized(c, ConcNormInputs)
    \/ TokenArrives(c, ConcTokenOutcomes)
    \/ RequestResponds(c, ConcResourceOutcomes)
    \/ ForwardResponds(c, ConcResourceOutcomes)
    \/ Complete(c)

SpecConc == Init /\ [][NextConc]_vars

\* Concurrent invocations whose network calls are answered: axios is given
\* `timeout: timeoutMs` on both requests, so each await ends in a response
\* or in an error.
SpecLive ==
  /\ Init
  /\ [][NextConc]_vars
  /\ \A c \in AllSlots :
       /\ WF_vars(TokenArrives(c, ConcTokenOutcomes))
       /\ WF_vars(RequestResponds(c, ConcResourceOutcomes))
       /\ WF_vars(ForwardResponds(c, ConcResourceOutcomes))

(***************************************************************************)
(* pathIsAllowed called on its own, over many candidate paths              *)
(***************************************************************************)

\* The entries of ALLOWED_PATHS with a placeholder segment, and the others.
Templates == {p \in ALLOWED_PATHS : includesColon(p)}
Literals == ALLOWED_PATHS \ Templates

\* The template t with its placeholder segment (":" and its name) replaced
\* by the atoms of seg.
Substitute(t, seg) ==
  LET i == CHOOSE j \in 1..Len(t) : t[j] = ":"
  IN  SubSeq(t, 1, i - 1) \o seg \o SubSeq(t, i + 2, Len(t))

\* Single segments: non-empty and without "/".
GoodSegments ==
  { <<"ABC123">>, <<"x", "?", "y">>, <<"a", "#", "b">>, <<" ">>,
    <<":", "id">>, <<"k", "=", "v">> }

\* Segments holding a "/".
SlashSegments == { <<"a", "/", "b">>, <<"ABC", "/">>, <<"/">> }

\* s cut before one of its "/" atoms: s with trailing segments missing.
SegmentPrefixes(s) ==
  {SubSeq(s, 1, k) : k \in {j \in 1..(Len(s) - 1) : s[j + 1] = "/"}}

\* Every proper prefix of s, atom by atom.
StrictPrefixes(s) == {SubSeq(s, 1, k) : k \in 0..(Len(s) - 1)}

\* Text appended after the path: a query string or a fragment.
Suffixes == { <<"?", "x", "=", "1">>, <<"#", "frag">>, <<"?">> }

Substituted == {Substitute(t, seg) : t \in Templates, seg \in GoodSegments}

\* The paths pathIsAllowed is called with.
Candidates ==
  LET base == ALLOWED_PATHS \cup Substituted
               \cup {Substitute(t, <<>>) : t \in Templates}
  IN  base
      \cup {Substitute(t, seg) : t \in Templates, seg \in SlashSegments}
      \cup {s \o <<"/">> : s \in base}
      \cup {s \o <<"/", "extra">> : s \in base}
      \cup {<<"/", "extra">> \o s : s \in Substituted}
      \cup UNION {StrictPrefixes(s) : s \in base}
      \cup {s \o q : s \in base, q \in Suffixes}
      \cup { <<"/", "v1", "/", "unknown", "/", "endpoint">>,
             <<"v2", "/", "shopping", "/", "flight-offers">>,
             <<"/", "V2", "/", "shopping", "/", "flight-offers">> }

\* pathIsAllowed(p) is called and returns.
PathIsAllowedCall ==
  /\ ~probe.called
  /\ \E p \in Candidates :
        probe' = [path |-> p, called |-> TRUE, allowed |-> pathIsAllowed(p)]
  /\ UNCHANGED <<pc, call, args, token, result, sent, recv, env, nCalls,
                 nForwarded, nTokenReq, nResReq>>

\* The caller drops the verdict.
PathIsAllowedDone ==
  /\ probe.called
  /\ probe' = NoProbe
  /\ UNCHANGED <<pc, call, args, token, result, sent, recv, env, nCalls,
                 nForwarded, nTokenReq, nResReq>>

NextPath == PathIsAllowedCall \/ PathIsAllowedDone

SpecPath == Init /\ [][NextPath]_vars

(***************************************************************************)
(* Properties                                                              *)
(***************************************************************************)

\* The requests of kind k that the invocation in slot c has issued.
Requests(c, k) == {i \in DOMAIN sent[c] : sent[c][i].kind = k}

\* The invocation in slot c has received the answer to its token request.
TokenAnswered(c) == Len(recv[c]) >= 1

\* The invocation in slot c has received the answer to its resource request.
ResourceAnswered(c) == Len(recv[c]) >= 2

\* The token exchange failed: transport failure, non-2xx status, or no
\* non-empty access_token in the body.
TokenExchangeFailed(o) ==
  \/ o.type = "error"
  \/ o.status < 200
  \/ o.status >= 300
  \/ o.data.t # "object"
  \/ o.data.k # "access_token"
  \/ o.data.v = ""

\* The token the endpoint returned to the invocation in slot c.
TokenReturnedTo(c) == recv[c][1].data.v

\* The header names of a request that equal "authorization" up to case.
AuthHeaderNames(r) == {k \in DOMAIN r.headers : toLowerCase(k) = "authorization"}

\* The caller's headers hold an authorization key, in some letter case.
HasAuthKey(h) ==
  \E k \in DOMAIN h :
     k \in {"Authorization", "AUTHORIZATION", "aUtHoRiZaTiOn", "authorization"}

\* C1: in amadeus.request a path that pathIsAllowed does not permit is
\* rejected with a thrown validation error and the invocation issues no
\* token request and no resource request.
C1_DisallowedPathNoIO ==
  \A c \in AllSlots :
    (call[c].tool.name = "amadeus.request" /\ ~pathIsAllowed(call[c].path))
      => (pc[c] = "thrown" /\ result[c].kind = "throw" /\ sent[c] = <<>>)

\* C1 witness: amadeus.request of src/index.js was called with a path that
\* starts with "/" and is not allowed, every other field valid, and threw.
C1_Witness ==
  \E c \in AllSlots :
    /\ call[c].tool = RequestTool
    /\ call[c].path = <<"/", "v1", "/", "unknown", "/", "endpoint">>
    /\ call[c].headers = EmptyHeaders
    /\ call[c].timeoutMs = TUndefined
    /\ pc[c] = "thrown"
    /\ result[c].text = "path is not allowed by server policy"

\* C2 (as claimed): every resource request issued by a fixed-path or by-id
\* tool goes to a path that pathIsAllowed permits.
C2_ToolPathsAllowed ==
  \A c \in AllSlots :
    call[c].tool.name # "amadeus.request"
      => \A i \in Requests(c, "resource") : pathIsAllowed(sent[c][i].path)

\* C3: every resource request carries exactly one header named
\* authorization up to case, and its value is "Bearer " followed by the
\* token returned to that invocation.
C3_HeaderMerge ==
  \A c \in AllSlots :
    \A i \in Requests(c, "resource") :
      /\ Cardinality(AuthHeaderNames(sent[c][i])) = 1
      /\ \A k \in AuthHeaderNames(sent[c][i]) :
            sent[c][i].headers[k] = "Bearer " \o TokenReturnedTo(c)

\* C3 witness: a resource request went out for a call with caller headers.
C3_Witness ==
  \E c \in AllSlots :
    /\ DOMAIN call[c].headers # {}
    /\ Requests(c, "resource") # {}
    /\ token[c] = "tokB"

\* C4: an input whose headers hold an authorization key in any letter case
\* is rejected: the handler throws, the forwarder is not entered and no
\* request is issued.
C4_AuthHeaderRejected ==
  \A c \in AllSlots :
    HasAuthKey(call[c].headers)
      => (pc[c] = "thrown" /\ args[c] = NoArgs /\ sent[c] = <<>>)

\* C4 witness: a call with otherwise valid input and a mixed-case
\* authorization key was rejected with the message of the header check.
C4_Witness ==
  \E c \in AllSlots :
    /\ "aUtHoRiZaTiOn" \in DOMAIN call[c].headers
    /\ pc[c] = "thrown"
    /\ result[c].text = "Do not send Authorization; it will be set by the server."

\* The payload the forwarder is to return for a transport-level failure o.
ForwardingErrorText(o) ==
  "Forwarding error (" \o ToString(IF o.hasResponse THEN o.status ELSE 500)
    \o "): "
    \o (IF o.hasResponse THEN textOf(o.data)
        ELSE "{\"error\":\""
               \o (IF o.message # "" THEN o.message ELSE "Unknown error")
               \o "\"}")

\* C5 (as claimed): when the resource request fails at transport level the
\* call returns isError = true with payload "Forwarding error (S): detail"
\* and does not throw.
C5_TransportFailureReturned ==
  \A c \in AllSlots :
    (ResourceAnswered(c) /\ recv[c][2].type = "error")
      => /\ pc[c] = "returned"
         /\ result[c] = Returned(ForwardingErrorText(recv[c][2]), TRUE)

\* The text of the upstream bodies of the model.
UpstreamBodyText(d) ==
  CASE d = JsObjectOfArray("data") -> "{\"data\":[]}"
    [] d = JsObject("error", "bad request") -> "{\"error\":\"bad request\"}"
    [] d = JsObject("error", "not found") -> "{\"error\":\"not found\"}"
    [] OTHER -> d.v

\* C6: for a resource response with an HTTP status the call returns (it
\* does not throw), isError is true exactly when status >= 400, and the
\* payload is the upstream body.
C6_StatusIsResult ==
  \A c \in AllSlots :
    (ResourceAnswered(c) /\ recv[c][2].type = "response")
      => /\ pc[c] = "returned"
         /\ result[c].kind = "return"
         /\ result[c].isError <=> (recv[c][2].status >= 400)
         /\ result[c].text = UpstreamBodyText(recv[c][2].data)

\* C6 witness: a tool of forwardAmadeus returned the body of a 400 answer
\* with isError.
C6_Witness ==
  \E c \in AllSlots :
    /\ call[c].tool.file # "index.js"
    /\ ResourceAnswered(c)
    /\ recv[c][2].type = "response"
    /\ recv[c][2].status = 400
    /\ result[c] = Returned("{\"error\":\"bad request\"}", TRUE)

\* C7: when the token exchange of a call fails, the call issues no resource
\* request.
C7_AuthErrorShortCircuits ==
  \A c \in AllSlots :
    (TokenAnswered(c) /\ TokenExchangeFailed(recv[c][1]))
      => (Requests(c, "resource") = {} /\ Len(recv[c]) = 1)

\* C7 witness: the token endpoint answered 200 without an access_token and
\* the call ended.
C7_Witness ==
  \E c \in AllSlots :
    /\ TokenAnswered(c)
    /\ recv[c][1] = HttpResponse(200, JsEmptyObject)
    /\ pc[c] = "thrown"
    /\ Requests(c, "token") # {}

\* C8 (as claimed): a call whose token exchange fails ends with the
\* handler returning a result with isError = true.
C8_AuthFailureReturned ==
  \A c \in AllSlots :
    (TokenAnswered(c) /\ TokenExchangeFailed(recv[c][1]))
      => (pc[c] = "returned" /\ result[c].kind = "return" /\ result[c].isError)

\* The details of the token failures of the model.
AuthFailureDetails ==
  { "No access_token in Amadeus response", "{\"error\":\"invalid_client\"}", "",
    "Forbidden", "Request failed with status code 500",
    "timeout of 15000ms exceeded" }

\* C8 (amended): a call whose token exchange fails ends with the handler
\* throwing an error whose message is "Amadeus auth error: " followed by the
\* detail; the handler returns no result.
C8_AuthFailureThrown ==
  \A c \in AllSlots :
    (TokenAnswered(c) /\ TokenExchangeFailed(recv[c][1]))
      => /\ pc[c] = "thrown"
         /\ result[c].kind = "throw"
         /\ \E d \in AuthFailureDetails :
               result[c].text = "Amadeus auth error: " \o d

\* C8 witness: the token endpoint answered 401 with a body and the handler
\* threw the wrapped body.
C8_Witness ==
  \E c \in AllSlots :
    /\ TokenAnswered(c)
    /\ recv[c][1].status = 401
    /\ result[c] = Thrown("Amadeus auth error: {\"error\":\"invalid_client\"}")

\* C9: the number of token requests equals the number of calls that passed
\* validation; a resource request carries the token returned to its own
\* call; and once a call is over nothing of it, its token included, is
\* kept.
C9_NoTokenCaching ==
  /\ nTokenReq = nForwarded
  /\ \A c \in AllSlots :
       /\ pc[c] \in {"awaitToken", "awaitResponse"} => Requests(c, "token") # {}
       /\ \A i \in Requests(c, "resource") :
             sent[c][i].headers["Authorization"] = "Bearer " \o TokenReturnedTo(c)
       /\ pc[c] = "idle" => (token[c] = "" /\ args[c] = NoArgs /\ recv[c] = <<>>)

\* C9 witness: a second forwarded call, after a first one that obtained a
\* token and is over, has issued its own token request.
C9_Witness ==
  /\ nForwarded >= 2
  /\ nResReq >= 1
  /\ pc[1] = "awaitToken"
  /\ token[1] = ""

\* C10: whatever the interleaving, every invocation in the forwarder has
\* issued exactly one token request of its own, and the Authorization
\* header of its resource request carries the token returned to it.
C10_OwnToken ==
  \A c \in AllSlots :
    /\ pc[c] \in {"awaitToken", "awaitResponse"}
         => Cardinality(Requests(c, "token")) = 1
    /\ \A i \in Requests(c, "resource") :
          /\ Cardinality(Requests(c, "token")) = 1
          /\ sent[c][i].headers["Authorization"] = "Bearer " \o TokenReturnedTo(c)

\* C10 witness: two invocations with the same credentials are in flight at
\* once and hold different tokens.
C10_Witness ==
  \E c, d \in AllSlots :
    /\ c # d
    /\ pc[c] = "awaitResponse"
    /\ pc[d] = "awaitResponse"
    /\ args[c].apiKey = args[d].apiKey
    /\ token[c] = "tokA"
    /\ token[d] = "tokB"

\* C11: a call is one linear sequence without retries: at most one token
\* request and at most one resource request; the resource request is the
\* second request and is issued only after the token request was answered
\* successfully; after a failed token exchange, and after the answer or
\* failure of the resource request, the call issues nothing more.
C11_LinearNoRetry ==
  \A c \in AllSlots :
    /\ Cardinality(Requests(c, "token")) <= 1
    /\ Cardinality(Requests(c, "resource")) <= 1
    /\ \A i \in Requests(c, "resource") :
          /\ i = 2
          /\ sent[c][1].kind = "token"
          /\ TokenAnswered(c)
          /\ ~TokenExchangeFailed(recv[c][1])
    /\ (TokenAnswered(c) /\ TokenExchangeFailed(recv[c][1])) => Len(sent[c]) = 1
    /\ ResourceAnswered(c) => (Len(sent[c]) = 2 /\ Len(recv[c]) = 2)
    /\ pc[c] \in {"returned", "thrown"} => Len(sent[c]) = Len(recv[c])

\* C11 witness: the resource request of a call failed at transport level
\* and the call ended having issued its two requests and no other.
C11_Witness ==
  \E c \in AllSlots :
    /\ ResourceAnswered(c)
    /\ recv[c][2].type = "error"
    /\ pc[c] \in {"returned", "thrown"}
    /\ Len(sent[c]) = 2

\* The paths made of template t with one good segment in its placeholder.
SubstitutedOf(t) == {Substitute(t, seg) : seg \in GoodSegments}

\* The verdict of pathIsAllowed on the substitutions of template t that do
\* not change the number of segments, or add segments: true for a single
\* non-empty slash-free segment; false for an empty placeholder segment,
\* for one holding a slash, and for extra segments.
TemplateVerdict(t) ==
  /\ probe.path \in SubstitutedOf(t) => probe.allowed
  /\ probe.path = Substitute(t, <<>>) => ~probe.allowed
  /\ (\E seg \in SlashSegments : probe.path = Substitute(t, seg))
        => ~probe.allowed
  /\ (\E s \in SubstitutedOf(t) :
         probe.path = s \o <<"/", "extra">> \/ probe.path = <<"/", "extra">> \o s)
        => ~probe.allowed

\* The candidate is a substitution of template t with trailing segments
\* missing.
MissingSegments(t) == \E s \in SubstitutedOf(t) : probe.path \in SegmentPrefixes(s)

\* C12 (as claimed): for every template, pathIsAllowed returns true for the
\* template with one non-empty slash-free segment in its placeholder, and
\* false when the placeholder segment is empty or holds a slash or the
\* candidate has extra or missing segments.
C12_TemplateMatch ==
  probe.called =>
    \A t \in Templates :
      /\ TemplateVerdict(t)
      /\ MissingSegments(t) => ~probe.allowed

\* C12 (amended): as above, but a candidate with missing segments is
\* rejected only when it is not itself an entry of the allowlist.
C12_TemplateMatchAmended ==
  probe.called =>
    \A t \in Templates :
      /\ TemplateVerdict(t)
      /\ (MissingSegments(t) /\ probe.path \notin ALLOWED_PATHS) => ~probe.allowed

\* C12 witness: pathIsAllowed returned true for
\* /v1/ordering/transfer-orders/ABC123/transfers/cancellation.
C12_Witness ==
  /\ probe.called
  /\ probe.path = <<"/", "v1", "/", "ordering", "/", "transfer-orders", "/",
                    "ABC123", "/", "transfers", "/", "cancellation">>
  /\ probe.allowed

\* C13: for every literal path of the allowlist pathIsAllowed returns true
\* for that exact string.
C13_LiteralsAllowed ==
  (probe.called /\ probe.path \in Literals) => probe.allowed

\* C13 witness: pathIsAllowed returned true for the literal
\* /v1/reference-data/locations/hotels/by-city.
C13_Witness ==
  /\ probe.called
  /\ probe.path = <<"/", "v1", "/", "reference-data", "/", "locations", "/",
                    "hotels", "/", "by-city">>
  /\ probe.path \in Literals
  /\ probe.allowed

\* s matches template t segment for segment: the same number of segments,
\* every literal segment equal, every placeholder segment non-empty.
FullSegmentMatch(t, s) ==
  LET ts == splitSlash(t)
      ss == splitSlash(s)
  IN  /\ Len(ts) = Len(ss)
      /\ \A i \in 1..Len(ts) :
            IF ts[i] # <<>> /\ ts[i][1] = ":" THEN ss[i] # <<>>
            ELSE ss[i] = ts[i]

\* s is an entry of the allowlist or fully matches one of its templates.
Listed(s) == s \in ALLOWED_PATHS \/ \E t \in Templates : FullSegmentMatch(t, s)

\* C14: pathIsAllowed returns false for every string that is neither an
\* entry of the allowlist nor a full segment-for-segment match of a
\* template; so for the empty string, for a strict prefix of an entry (that
\* is not itself listed) and for any entry with a trailing slash appended.
C14_NoOtherMatch ==
  probe.called =>
    /\ ~Listed(probe.path) => ~probe.allowed
    /\ probe.path = <<>> => ~probe.allowed
    /\ (\E p \in ALLOWED_PATHS : probe.path = p \o <<"/">>) => ~probe.allowed
    /\ ((\E p \in ALLOWED_PATHS : probe.path \in StrictPrefixes(p))
          /\ ~Listed(probe.path)) => ~probe.allowed

\* C14 witness: pathIsAllowed returned false for /v2/shopping/flight-offers/
\* (an entry with a trailing slash appended).
C14_Witness ==
  /\ probe.called
  /\ probe.path = FlightOffersPath \o <<"/">>
  /\ ~probe.allowed

\* The candidate holds a "?" or a "#".
HasQueryOrFragment(s) == \E i \in 1..Len(s) : s[i] \in {"?", "#"}

\* s with everything from its first "?" or "#" stripped.
StripQueryAndFragment(s) ==
  IF HasQueryOrFragment(s)
    THEN LET k == CHOOSE i \in 1..Len(s) :
                    /\ s[i] \in {"?", "#"}
                    /\ \A j \in 1..(i - 1) : s[j] \notin {"?", "#"}
         IN  SubSeq(s, 1, k - 1)
    ELSE s

\* C15 (as claimed): for a candidate holding "?" or "#" the verdict of
\* pathIsAllowed equals its verdict on the candidate with everything from
\* the first "?" or "#" stripped.
C15_NoSmuggling ==
  (probe.called /\ HasQueryOrFragment(probe.path))
    => (probe.allowed <=> pathIsAllowed(StripQueryAndFragment(probe.path)))

\* The token endpoint answered the invocation in slot c with a 2xx status.
TokenStatus2xx(c) ==
  /\ TokenAnswered(c)
  /\ recv[c][1].type = "response"
  /\ recv[c][1].status >= 200
  /\ recv[c][1].status < 300

\* The body d is an object whose access_token field is present and non-empty.
HasAccessToken(d) == d.t = "object" /\ d.k = "access_token" /\ d.v # ""

\* C16: when the token endpoint answers with a 2xx status and a body whose
\* access_token is present and non-empty, getAmadeusToken returns exactly
\* that value: it is the token of the call and the call goes on to its
\* resource request.
C16_TokenReturned ==
  \A c \in AllSlots :
    (TokenStatus2xx(c) /\ HasAccessToken(recv[c][1].data))
      => /\ token[c] = recv[c][1].data.v
         /\ Requests(c, "resource") # {}

\* C16 witness: the token endpoint answered 201 {"access_token":"tokC"} and
\* the call holds "tokC".
C16_Witness ==
  \E c \in AllSlots :
    /\ TokenAnswered(c)
    /\ recv[c][1] = HttpResponse(201, JsObject("access_token", "tokC"))
    /\ token[c] = "tokC"

\* C17: when the token endpoint answers with a 2xx status but the body is
\* absent or its access_token is missing or empty, getAmadeusToken throws
\* an error reporting that no access token is in the response and returns
\* no token.
C17_NoTokenInBody ==
  \A c \in AllSlots :
    (TokenStatus2xx(c) /\ ~HasAccessToken(recv[c][1].data))
      => /\ pc[c] = "thrown"
         /\ result[c] =
              Thrown("Amadeus auth error: No access_token in Amadeus response")
         /\ token[c] = ""
         /\ Requests(c, "resource") = {}

\* C17 witness: the token endpoint answered 200 {"access_token":""} and the
\* call threw.
C17_Witness ==
  \E c \in AllSlots :
    /\ TokenAnswered(c)
    /\ recv[c][1] = HttpResponse(200, JsObject("access_token", ""))
    /\ pc[c] = "thrown"
    /\ result[c].kind = "throw"

\* The text of the error bodies of the token endpoint: a string verbatim,
\* an object as JSON.
AuthBodyText(d) ==
  CASE d = JsObject("error", "invalid_client") -> "{\"error\":\"invalid_client\"}"
    [] OTHER -> d.v

\* C18: when the token endpoint answers with a non-2xx status and a body,
\* getAmadeusToken throws an error whose message holds that body: verbatim
\* if it is a string, as JSON otherwise.
C18_AuthErrorCarriesBody ==
  \A c \in AllSlots :
    ( /\ TokenAnswered(c)
      /\ recv[c][1].type = "response"
      /\ (recv[c][1].status < 200 \/ recv[c][1].status >= 300)
      /\ recv[c][1].data.t # "undefined" )
      => /\ pc[c] = "thrown"
         /\ result[c] =
              Thrown("Amadeus auth error: " \o AuthBodyText(recv[c][1].data))

\* C18 witness: the token endpoint answered 403 with the string body
\* "Forbidden" and the call threw with that body in its message.
C18_Witness ==
  \E c \in AllSlots :
    /\ TokenAnswered(c)
    /\ recv[c][1] = HttpResponse(403, JsString("Forbidden"))
    /\ result[c] = Thrown("Amadeus auth error: Forbidden")

\* C19: the payload of a returned result is the upstream body verbatim when
\* the body is a string and its JSON serialization otherwise; a 200 answer
\* with body {"data":[]} yields payload '{"data":[]}' with isError false.
C19_PayloadNormalized ==
  \A c \in AllSlots :
    (ResourceAnswered(c) /\ recv[c][2].type = "response")
      => /\ result[c].kind = "return"
         /\ recv[c][2].data.t = "string" => result[c].text = recv[c][2].data.v
         /\ recv[c][2].data.t # "string"
              => result[c].text = UpstreamBodyText(recv[c][2].data)
         /\ recv[c][2] = HttpResponse(200, JsObjectOfArray("data"))
              => result[c] = Returned("{\"data\":[]}", FALSE)

\* C19 witness: amadeus.request of src/index.js got 200 {"data":[]} and
\* returned its serialization.
C19_Witness ==
  \E c \in AllSlots :
    /\ call[c].tool.file = "index.js"
    /\ ResourceAnswered(c)
    /\ recv[c][2] = HttpResponse(200, JsObjectOfArray("data"))
    /\ result[c] = Returned("{\"data\":[]}", FALSE)

\* The header names of a request that equal "content-type" up to case.
ContentTypeNames(r) == {k \in DOMAIN r.headers : toLowerCase(k) = "content-type"}

\* C20 (as claimed): no resource request carries a header named
\* content-type, in any letter case, whose value differs from the
\* contentType of the call.
C20_ContentTypePrecedence ==
  \A c \in AllSlots :
    \A i \in Requests(c, "resource") :
      \A k \in ContentTypeNames(sent[c][i]) :
        sent[c][i].headers[k] = args[c].contentType

\* The number given as timeoutMs lies outside (0, 60000].
TimeoutOutOfRange(t) ==
  \/ t.t = "int" /\ (t.v <= 0 \/ t.v > 60000)
  \/ t.t = "frac" /\ (t.v < 0 \/ t.v >= 60000)

C22_MissingEnvCredentials ==
  \A c \in AllSlots :
    ( /\ call[c].tool.file \in {"B", "C"}
      /\ (env.AMADEUS_API_KEY = "" \/ env.AMADEUS_API_SECRET = "") )
      => /\ pc[c] = "thrown"
         /\ result[c].kind = "throw"
         /\ sent[c] = <<>>
         /\ recv[c] = <<>>
         /\ args[c] = NoArgs

\* C22 witness: a tool of file B was called with valid input while
\* AMADEUS_API_SECRET is empty, and threw the configuration error.
C22_Witness ==
  \E c \in AllSlots :
    /\ call[c].tool.file = "B"
    /\ env.AMADEUS_API_KEY = "envkey"
    /\ env.AMADEUS_API_SECRET = ""
    /\ result[c] =
         Thrown("Missing AMADEUS_API_KEY or AMADEUS_API_SECRET in environment")

\* C23: every tool invocation terminates.  An invocation that awaits the
\* answer to its token request or to its resource request, the only two
\* points where it is suspended, eventually returns a result or throws an
\* error, whatever the other invocations do.
C23_Terminates ==
  \A c \in AllSlots :
    (pc[c] \in {"awaitToken", "awaitResponse"})
      ~> (pc[c] \in {"returned", "thrown"})

\* C23 witness: an invocation was suspended twice, on the token fetch and
\* on the forwarded call, and has returned its result, while another
\* invocation is still suspended.
C23_Witness ==
  \E c, d \in AllSlots :
    /\ c # d
    /\ pc[c] = "returned"
    /\ Len(sent[c]) = 2
    /\ Len(recv[c]) = 2
    /\ pc[d] \in {"awaitToken", "awaitResponse"}

\* The credentials the invocation in slot c was given: those of its input,
\* or those of the environment for a tool of file B or C.
GivenCredentials(c) ==
  IF call[c].tool.file \in {"B", "C"}
    THEN [apiKey |-> env.AMADEUS_API_KEY, apiSecret |-> env.AMADEUS_API_SECRET]
    ELSE [apiKey |-> call[c].apiKey, apiSecret |-> call[c].apiSecret]

\* C25: whenever a token request is issued, from amadeus.request, from a
\* normalizeBase tool or from an environment-credential tool, its client_id
\* and client_secret are both non-empty, and they are the API key and the
\* API secret the invocation was given, unmodified.
C25_CredentialsNonEmpty ==
  \A c \in AllSlots :
    \A i \in Requests(c, "token") :
      /\ sent[c][i].client_id # ""
      /\ sent[c][i].client_secret # ""
      /\ sent[c][i].client_id = GivenCredentials(c).apiKey
      /\ sent[c][i].client_secret = GivenCredentials(c).apiSecret
      /\ args[c].apiKey = GivenCredentials(c).apiKey
      /\ args[c].apiSecret = GivenCredentials(c).apiSecret

\* C25 witness: amadeus.request was given a one-blank API secret, which
\* z.string().min(1) accepts, and its token request carries that secret.
C25_Witness ==
  \E c \in AllSlots :
    /\ call[c].tool = RequestTool
    /\ call[c].apiSecret = " "
    /\ \E i \in Requests(c, "token") :
          sent[c][i].client_id = "key" /\ sent[c][i].client_secret = " "

\* C26 (as claimed): when the token endpoint answers with a status outside
\* 200..299 and without a body, absent or empty, the error thrown carries
\* the transport error message "Request failed with status code N".
C26_NoBodyTransportMessage ==
  \A c \in AllSlots :
    ( /\ TokenAnswered(c)
      /\ recv[c][1].type = "response"
      /\ ~(recv[c][1].status >= 200 /\ recv[c][1].status < 300)
      /\ recv[c][1].data \in {JsUndefined, JsString("")} )
      => result[c] =
           Thrown("Amadeus auth error: Request failed with status code "
                    \o ToString(recv[c][1].status))

\* C27 (as claimed): every request amadeus.request issues, the token
\* request with the API key and secret and the resource request with the
\* bearer token, goes to the host <serviceName>.api.amadeus.com, whatever
\* service name the schema accepted.
C27_HostIsAmadeus ==
  \A c \in AllSlots :
    call[c].tool = RequestTool
      => \A i \in DOMAIN sent[c] :
            LET host == requestHost(sent[c][i]) IN
            /\ host # <<>>
            /\ host[Len(host)] = ".api.amadeus.com"

\* C28: getAmadeusToken either returns a non-empty token or throws an error
\* whose message starts with "Amadeus auth error: ", the missing-token
\* error included; so a resource request is only ever sent with the
\* Authorization header "Bearer " followed by a non-empty token.
C28_TokenOrAuthError ==
  \A c \in AllSlots :
    /\ TokenAnswered(c)
         => \/ /\ token[c] \notin {"", "undefined"}
               /\ Requests(c, "resource") # {}
            \/ /\ token[c] = ""
               /\ result[c].kind = "throw"
               /\ \E d \in AuthFailureDetails :
                     result[c].text = "Amadeus auth error: " \o d
               /\ Requests(c, "resource") = {}
    /\ \A i \in Requests(c, "resource") :
         /\ sent[c][i].headers["Authorization"] \notin {"Bearer ", "Bearer undefined"}
         /\ sent[c][i].headers["Authorization"] = "Bearer " \o token[c]
         /\ token[c] # ""

\* C28 witness: the token endpoint answered 200 without a body, the error
\* thrown inside the try block came out wrapped by the catch block, and no
\* resource request was sent.
C28_Witness ==
  \E c \in AllSlots :
    /\ TokenAnswered(c)
    /\ recv[c][1] = HttpResponse(200, JsUndefined)
    /\ result[c] =
         Thrown("Amadeus auth error: No access_token in Amadeus response")
    /\ Requests(c, "resource") = {}

\* The by-id tools whose path is an allowlist template.
TemplateToolNames ==
  {"amadeus.v1.booking.flight-orders.by-id",
   "amadeus.v1.ordering.transfer-orders.cancellation",
   "amadeus.v3.shopping.hotel-offers.by-id"}

\* The number of "/" of a path, that is, its number of segments.
Slashes(p) == Cardinality({i \in 1..Len(p) : p[i] = "/"})

\* C29: for the by-id tools whose path comes from an allowlist template,
\* every accepted non-empty id, also one with "/", "?" or "#" in it, gives
\* a forwarded path that pathIsAllowed accepts and that has exactly the
\* segments of the template: the id is one percent-encoded segment and
\* adds no segment, no query string and no fragment.
C29_IdIsOneSegment ==
  \A c \in AllSlots :
    ( /\ call[c].tool.name \in TemplateToolNames
      /\ call[c].id \notin {UndefinedStr, <<>>} )
      => \A i \in Requests(c, "resource") :
            LET path == sent[c][i].path IN
            /\ pathIsAllowed(path)
            /\ Slashes(path) = Slashes(call[c].tool.pre \o call[c].tool.post)
            /\ \A j \in 1..Len(path) : path[j] \notin {"?", "#"}
            /\ SubSeq(path, 1, Len(call[c].tool.pre)) = call[c].tool.pre

\* C29 witness: a by-id tool was given the id "a/b" and its resource
\* request has the id as the single segment "a%2Fb".
C29_Witness ==
  \E c \in AllSlots :
    /\ call[c].tool.name \in TemplateToolNames
    /\ call[c].id = <<"a", "/", "b">>
    /\ \E i \in Requests(c, "resource") :
          \E j \in 1..Len(sent[c][i].path) : sent[c][i].path[j] = "%2F"

\* The invocation in slot c is of a file-A tool that calls normalizeBase,
\* and every field but timeoutMs passes the checks of normalizeBase.
NormalizeBaseCall(c) ==
  /\ call[c].tool.file = "A"
  /\ call[c].tool.name # "amadeus.request"
  /\ ~blankString(call[c].serviceName)
  /\ ~blankString(call[c].apiKey)
  /\ ~blankString(call[c].apiSecret)
  /\ ~HasAuthKey(call[c].headers)

\* C30: normalizeBase never rejects a timeoutMs that is not an integer: a
\* fraction, a string, null or a fraction above 60000 is replaced by 15000
\* and the call goes on; only an integer outside (0, 60000] raises
\* "timeoutMs must be a positive integer up to 60000", and then no
\* normalized arguments exist and no request is issued.
C30_NonIntegerTimeoutDefaults ==
  \A c \in AllSlots :
    NormalizeBaseCall(c) =>
      /\ call[c].timeoutMs.t # "int"
           => /\ result[c] #
                   Thrown("timeoutMs must be a positive integer up to 60000")
              /\ \A i \in DOMAIN sent[c] : sent[c][i].timeout = 15000
              /\ ( \/ call[c].tool.id = "none"
                   \/ (call[c].id # UndefinedStr /\ ~blankAtoms(call[c].id)) )
                   => (sent[c] # <<>> /\ args[c].timeoutMs = 15000)
      /\ (call[c].timeoutMs.t = "int" /\ TimeoutOutOfRange(call[c].timeoutMs))
           => /\ result[c] =
                   Thrown("timeoutMs must be a positive integer up to 60000")
              /\ pc[c] = "thrown"
              /\ sent[c] = <<>>
              /\ args[c] = NoArgs
      /\ (call[c].timeoutMs.t = "int" /\ ~TimeoutOutOfRange(call[c].timeoutMs))
           => \A i \in DOMAIN sent[c] : sent[c][i].timeout = call[c].timeoutMs.v

\* C30 witness: a file-A tool was called with timeoutMs 60000.5 and both
\* of its requests were issued with the timeout 15000.
C30_Witness ==
  \E c \in AllSlots :
    /\ NormalizeBaseCall(c)
    /\ call[c].timeoutMs = TFrac(60000)
    /\ Len(sent[c]) = 2
    /\ \A i \in DOMAIN sent[c] : sent[c][i].timeout = 15000

====
